---- MODULE Spec2Model ----
(***************************************************************************)
(* Model of the mosreg_tg schedule bot: the page extractor of              *)
(* mosreg_schedule_selenium.py (MosregSchedule.get_schedule) and the       *)
(* cache / session / refresh / digest coordination of                      *)
(* mosh_telegram_bot.py.                                                   *)
(*                                                                         *)
(* Text is modelled as a sequence of words (a word is a string); the       *)
(* Russian words of the source are transliterated to ASCII.  x in y        *)
(* (substring) is containment of a contiguous run of words, and            *)
(* str.lower() maps each word through LowerWord.                           *)
(* Time is in whole seconds since the epoch, as time.time() is.            *)
(***************************************************************************)
EXTENDS Integers, Sequences, FiniteSets, TLC

(***************************************************************************)
(* Program constants                                                       *)
(***************************************************************************)
CACHE_TTL == 172800
SCHEDULER_TIMEOUT == 600
REFRESH_COOLDOWN == 300
FETCH_TIMEOUT == 20
SETTLE_LIST_PAGE == 5
SETTLE_DATE_PAGE == 7
DIGEST_INTERVAL == 60
SWEEP_INTERVAL == 21600
SWEEP_FIRST == 3600
MAX_HW_AGE == 2592000
max_workers == 4

(***************************************************************************)
(* Bounds of the model                                                     *)
(***************************************************************************)
\* the clock starts at 00:00 of this day after the epoch (day 7 is a Thursday)
StartDay == 7
\* at most this many clock steps, extractor calls, sessions
MaxTicks == 2
\* the clock stops before the end of day StartDay + MaxDays
MaxDays == 2
MaxExtractions == 2
MaxSessions == 2
\* at most this many snapshot writes fail
MaxWriteFailures == 1
MaxRestarts == 1

(***************************************************************************)
(* Text                                                                    *)
(***************************************************************************)
\* str.lower() on one word
LowerWord(w) ==
    CASE w = "Urokov" -> "urokov"
      [] w = "Net" -> "net"
      [] w = "Segodnya" -> "segodnya"
      [] w = "Vyhodnoj" -> "vyhodnoj"
      [] w = "Vhod" -> "vhod"
      [] w = "Dnevnik" -> "dnevnik"
      [] w = "Biblioteka" -> "biblioteka"
      [] w = "Raspisanie" -> "raspisanie"
      [] w = "Algebra" -> "algebra"
      [] w = "Fizika" -> "fizika"
      [] w = "Kabinet" -> "kabinet"
      [] w = "Uchit" -> "uchit"
      [] w = "DZ" -> "dz"
      [] w = "Uchitel" -> "uchitel"
      [] w = "Ivanova" -> "ivanova"
      [] w = "Petrov" -> "petrov"
      [] w = "Kontrolnaya" -> "kontrolnaya"
      [] w = "Gruppa" -> "gruppa"
      [] w = "OVZ" -> "ovz"
      [] w = "ROV" -> "rov"
      [] OTHER -> w

\* str.lower()
Lower(s) == [i \in 1..Len(s) |-> LowerWord(s[i])]

\* p in s
Contains(s, p) ==
    \E i \in 0..(Len(s) - Len(p)) : \A j \in 1..Len(p) : s[i + j] = p[j]

\* any(p in s for p in ps), ps a sequence of phrases
ContainsAny(s, ps) == \E k \in 1..Len(ps) : Contains(s, ps[k])

(***************************************************************************)
(* MosregSchedule.get_schedule: the extractor                              *)
(***************************************************************************)
\* the phrases tested on the page text before any selector
no_lessons_texts ==
    << <<"Urokov", "i", "meropriyatij", "net">>,
       <<"Urokov", "i", "meropriyatij", "na", "etot", "den", "ne", "najdeno">> >>

\* the phrases tested on the lowered page text when no selector matched
no_lessons_indicators ==
    << <<"urokov", "i", "meropriyatij", "net">>,
       <<"urokov", "net">>,
       <<"net", "urokov">>,
       <<"ne", "najdeno">>,
       <<"vyhodnoj">> >>

\* the interface-noise vocabulary
interface_elements ==
    << <<"dnevnik">>, <<"biblioteka">>, <<"portfolio">>, <<"spravka">>,
       <<"uchashchijsya">>, <<"raspisanie">>, <<"zadaniya">>, <<"ocenki">>,
       <<"sozdat">>, <<"uchyoba">>, <<"shkola">>, <<"olimpiady">>,
       <<"versiya">>, <<"napisat", "nam">> >>

NotSpecified == <<"Ne", "ukazano">>

\* a missing sub-element or an unreadable text (the lookup raises)
Missing == <<"<raises>">>

\* Python's None and a returned list, as one shape of value
None == [isNone |-> TRUE, items |-> <<>>]
List(xs) == [isNone |-> FALSE, items |-> xs]
\* an exception leaving MosregSchedule.get_schedule
Raised == [isNone |-> TRUE, items |-> <<"<exception>">>]

\* subject of a candidate node: the title sub-element, else the first line
\* of the node's text; Missing when neither can be read (the node is skipped)
SubjectOf(node) ==
    IF node.title # Missing THEN node.title
    ELSE IF node.text = Missing THEN Missing
    ELSE IF node.text = <<>> THEN <<>>
    ELSE node.text[1]

IsInterface(subject) == ContainsAny(Lower(subject), interface_elements)

\* the record built for a node
LessonInfo(subject) ==
    [subject |-> subject, start_time |-> NotSpecified, end_time |-> NotSpecified,
     room |-> NotSpecified, teacher |-> NotSpecified, homework |-> NotSpecified]

(***************************************************************************)
(* The lines of a node. A line is a sequence of tokens: words, numbers and *)
(* the marks ":", "-", ".". Two neighbouring words or numbers are          *)
(* separated by one space; a mark is attached to its neighbours. A line    *)
(* has no leading or trailing space, which is what str.strip() leaves.     *)
(* The vocabulary is such that no indicator occurs inside a token.         *)
(***************************************************************************)
Marks == {":", "-", ".", "_"}
Numbers == {"5", "08", "09", "12", "15", "30", "204"}

\* len() of one token: the length of the Russian word it transliterates
CharLen(tok) ==
    CASE tok \in Marks \cup {"5"} -> 1
      [] tok \in {"08", "09", "12", "15", "30", "DZ", "dz", "Ne", "po"} -> 2
      [] tok = "204" -> 3
      [] tok = "teme" -> 4
      [] tok \in {"Uchit", "uchit"} -> 5
      [] tok \in {"Fizika", "Petrov", "rabota"} -> 6
      [] tok \in {"Algebra", "Kabinet", "kabinet", "Ivanova", "Uchitel",
                  "Dnevnik", "ukazano"} -> 7
      [] tok = "paragraf" -> 8
      [] tok = "uravneniya" -> 9
      [] tok \in {"kvadratnye", "uprazhnenie"} -> 10
      [] tok = "Kontrolnaya" -> 11
      [] OTHER -> 6

\* len() of a line
RECURSIVE LineLen(_)
LineLen(line) ==
    IF line = <<>> THEN 0
    ELSE CharLen(Head(line))
         + (IF Len(line) > 1 /\ line[1] \notin Marks /\ line[2] \notin Marks
            THEN 1 ELSE 0)
         + LineLen(Tail(line))

\* any(char.isdigit() for char in line)
HasDigit(line) == \E i \in 1..Len(line) : line[i] \in Numbers

\* tok in line, for a one-token string
HasToken(line, tok) == \E i \in 1..Len(line) : line[i] = tok

\* line.split(tok)[0] and the text after the first tok
Before(line, tok) ==
    IF HasToken(line, tok)
    THEN SubSeq(line, 1, (CHOOSE i \in 1..Len(line) :
                              line[i] = tok /\ \A j \in 1..(i - 1) : line[j] # tok) - 1)
    ELSE line
After(line, tok) ==
    SubSeq(line, Len(Before(line, tok)) + 2, Len(line))

\* s.startswith(p)
StartsWith(s, p) == Len(p) <= Len(s) /\ SubSeq(s, 1, Len(p)) = p

homework_indicators ==
    << <<"dz", ":">>, <<"domashnee", "zadanie", ":">>, <<"zadanie", ":">>,
       <<"vypolnit", ":">>, <<"uchit">>, <<"prochitat">>, <<"vyuchit">>,
       <<"sdelat">>, <<"podgotovit">>, <<"paragraf">>, <<"uprazhnenie">>,
       <<"ex", ".">>, <<"exercise">>, <<"activity">>, <<"student's", "book">>,
       <<"workbook">>, <<"p", ".">>, <<"str", ".">>, <<"s", ".">>,
       <<"zapisat">>, <<"reshit">> >>

teacher_indicators ==
    << <<"prepodavatel", ":">>, <<"uchitel", ":">>,
       <<"vneurochnaya", "deyatelnost">>, <<"elektivnyj", "kurs">> >>

homework_prefixes ==
    << <<"dz", ":">>, <<"domashnee", "zadanie", ":">>, <<"zadanie", ":">> >>

teacher_prefixes == << <<"uchitel", ":">>, <<"prepodavatel", ":">> >>

\* the loop that cuts each prefix the lowered text starts with, in turn
RECURSIVE StripPrefixes(_, _)
StripPrefixes(text, prefixes) ==
    IF prefixes = <<>> THEN text
    ELSE StripPrefixes(
             IF StartsWith(Lower(text), Head(prefixes))
             THEN SubSeq(text, Len(Head(prefixes)) + 1, Len(text))
             ELSE text,
             Tail(prefixes))

IsTimeLine(line) == HasToken(line, ":") /\ LineLen(line) < 20
IsRoomLine(line) ==
    ~IsTimeLine(line) /\ HasDigit(line) /\ LineLen(line) < 15 /\ ~HasToken(line, ":")

\* line.split(label, 1)[1] has no second part: the label is found in the
\* lowered line and the line itself, not lowered, is split
RoomLabelRaises(line) == HasToken(Lower(line), "kabinet") /\ ~HasToken(line, "kabinet")

\* one line of the node's text applied to the record
ApplyLine(info, line, subject) ==
    IF line = <<>> \/ line = subject THEN info
    ELSE IF IsTimeLine(line)
    THEN IF HasToken(line, "-")
         THEN [info EXCEPT !.start_time = Before(line, "-"),
                           !.end_time = Before(After(line, "-"), "-")]
         ELSE [info EXCEPT !.start_time = line]
    ELSE IF IsRoomLine(line)
    THEN IF HasToken(Lower(line), "kabinet")
         THEN [info EXCEPT !.room = After(line, "kabinet")]
         ELSE [info EXCEPT !.room = line]
    ELSE IF LineLen(line) > 3
    THEN LET is_homework == ContainsAny(Lower(line), homework_indicators)
             is_teacher == ContainsAny(Lower(line), teacher_indicators)
         IN  IF is_homework \/ (LineLen(line) > 30 /\ ~is_teacher)
             THEN [info EXCEPT !.homework = StripPrefixes(line, homework_prefixes)]
             ELSE IF is_teacher \/ (LineLen(line) < 30 /\ ~is_homework)
             THEN [info EXCEPT !.teacher = StripPrefixes(line, teacher_prefixes)]
             ELSE info
    ELSE info

\* the loop over the lines of the node's text
RECURSIVE ApplyLines(_, _, _)
ApplyLines(info, lines, subject) ==
    IF lines = <<>> THEN info
    ELSE ApplyLines(ApplyLine(info, Head(lines), subject), Tail(lines), subject)

\* an exception inside the handling of a node: the node is skipped
NodeRaises(node, subject) ==
    \/ node.broken
    \/ \E i \in 1..Len(node.text) :
          /\ node.text[i] # <<>>
          /\ node.text[i] # subject
          /\ IsRoomLine(node.text[i])
          /\ RoomLabelRaises(node.text[i])

\* the corrections made once the lines are read
Settle(node, info) ==
    LET homework == IF node.homework_elem # Missing /\ node.homework_elem # <<>>
                    THEN node.homework_elem ELSE info.homework
        swap == LineLen(info.teacher) > 50 /\ homework = NotSpecified
        homework2 == IF swap THEN info.teacher ELSE homework
        teacher2 == IF swap THEN NotSpecified ELSE info.teacher
        teacher3 == IF /\ ContainsAny(Lower(teacher2), interface_elements)
                       /\ ~ContainsAny(Lower(teacher2), teacher_indicators)
                    THEN NotSpecified ELSE teacher2
        room2 == IF ContainsAny(Lower(info.room), interface_elements)
                 THEN NotSpecified ELSE info.room
    IN  [info EXCEPT !.homework = homework2, !.teacher = teacher3, !.room = room2]

\* the record appended for a node
Classify(node, subject) == Settle(node, ApplyLines(LessonInfo(subject), node.text, subject))

\* the loop over the found elements: lessons, in order
RECURSIVE CollectLessons(_)
CollectLessons(elems) ==
    IF elems = <<>> THEN <<>>
    ELSE LET node == Head(elems)
             subject == SubjectOf(node)
             rest == CollectLessons(Tail(elems))
         IN  IF subject = Missing THEN rest
             ELSE IF IsInterface(subject) THEN rest
             ELSE IF node.text = Missing THEN rest
             ELSE IF NodeRaises(node, subject) THEN rest
             ELSE <<Classify(node, subject)>> \o rest

\* a faulty variant of Unique: the last record of a subject is kept
RECURSIVE UniqueLast(_, _)
UniqueLast(lessons, subjects_seen) ==
    IF lessons = <<>> THEN <<>>
    ELSE LET lesson == Head(lessons)
             later == Tail(lessons)
         IN  IF IsInterface(lesson.subject)
             THEN UniqueLast(later, subjects_seen)
             ELSE IF \E i \in 1..Len(later) : later[i].subject = lesson.subject
             THEN UniqueLast(later, subjects_seen)
             ELSE <<lesson>> \o UniqueLast(later, subjects_seen)

\* deduplication by subject, first occurrence kept
RECURSIVE Unique(_, _)
Unique(lessons, subjects_seen) ==
    IF lessons = <<>> THEN <<>>
    ELSE LET lesson == Head(lessons)
         IN  IF IsInterface(lesson.subject)
             THEN Unique(Tail(lessons), subjects_seen)
             ELSE IF lesson.subject \in subjects_seen
             THEN Unique(Tail(lessons), subjects_seen)
             ELSE <<lesson>> \o Unique(Tail(lessons), subjects_seen \cup {lesson.subject})

\* the three XPath strategies, in order; page.xpath_raises = i when the i-th
\* find_elements call raises (0: none does)
XPathElements(page) ==
    IF page.xpath_raises = 1 THEN <<>>
    ELSE IF page.xpath[1] # <<>> THEN page.xpath[1]
    ELSE IF page.xpath_raises = 2 THEN <<>>
    ELSE IF page.xpath[2] # <<>> THEN page.xpath[2]
    ELSE IF page.xpath_raises = 3 THEN <<>>
    ELSE page.xpath[3]

\* the CSS selectors, in order: the first non-empty result
RECURSIVE FirstNonEmpty(_)
FirstNonEmpty(results) ==
    IF results = <<>> THEN <<>>
    ELSE IF Head(results) # <<>> THEN Head(results)
    ELSE FirstNonEmpty(Tail(results))

LessonElements(page) ==
    IF XPathElements(page) # <<>> THEN XPathElements(page)
    ELSE FirstNonEmpty(page.css)

\* a faulty variant of MosregGetSchedule: the selectors are tried before the
\* fixed phrases are looked for
SelectorsFirst(page) ==
    IF page.nav = "raise" THEN
        IF page.dump_raises THEN Raised ELSE None
    ELSE LET lesson_elements == LessonElements(page)
             lessons == CollectLessons(lesson_elements)
         IN  IF lessons # <<>> THEN List(Unique(lessons, {}))
             ELSE IF page.body = Missing THEN
                 IF page.dump_raises THEN Raised ELSE None
             ELSE List(<<>>)

\* MosregSchedule.get_schedule(date) on the page the session shows for the date
MosregGetSchedule(page) ==
    IF page.nav = "raise" THEN
        IF page.dump_raises THEN Raised ELSE None
    ELSE IF page.body # Missing /\ ContainsAny(page.body, no_lessons_texts) THEN List(<<>>)
    ELSE LET lesson_elements == LessonElements(page)
         IN  IF lesson_elements = <<>> /\ page.body = Missing THEN
                 IF page.dump_raises THEN Raised ELSE None
             ELSE IF lesson_elements = <<>>
                     /\ ContainsAny(Lower(page.body), no_lessons_indicators)
             THEN List(<<>>)
             ELSE LET lessons == CollectLessons(lesson_elements)
                  IN  IF lessons = <<>> THEN List(<<>>)
                      ELSE List(Unique(lessons, {}))

\* get_schedule_blocking: the call in the worker thread, exceptions to None
GetScheduleBlocking(page) ==
    LET lessons == MosregGetSchedule(page)
    IN  IF lessons = Raised THEN None ELSE lessons

(***************************************************************************)
(* Pages the session can show, and their candidate nodes                   *)
(***************************************************************************)
NodeHw(title, text, broken, homework_elem) ==
    [title |-> title, text |-> text, broken |-> broken, homework_elem |-> homework_elem]
Node(title, text, broken) == NodeHw(title, text, broken, Missing)

nAlgebra == Node(<<"Algebra">>, << <<"Algebra">>, <<"204">> >>, FALSE)
nAlgebraAgain == Node(Missing, << <<"Algebra">>, <<"Ivanova">> >>, FALSE)
nFizika == Node(Missing, << <<"Fizika">> >>, FALSE)
nMenu == Node(<<"Dnevnik">>, << <<"Dnevnik">> >>, FALSE)
nBroken == Node(<<"Fizika">>, << <<"Fizika">> >>, TRUE)
nUnreadable == Node(Missing, Missing, FALSE)

NodeLists ==
    { <<>>, <<nAlgebra>>, <<nMenu>>, <<nAlgebra, nFizika>>,
      <<nMenu, nAlgebra, nAlgebraAgain>>, <<nBroken>>, <<nUnreadable, nFizika>> }

tNoLessons == <<"Urokov", "i", "meropriyatij", "net">>
tNotFound == <<"Urokov", "i", "meropriyatij", "na", "etot", "den", "ne", "najdeno">>
tHoliday == <<"Segodnya", "vyhodnoj">>
tNoLessonsOtherCase == <<"Net", "urokov">>
tLogin == <<"Vhod", "v", "sistemu">>
tLessons == <<"Raspisanie", "Algebra", "Fizika">>
tBlank == <<"Zagruzka">>

Bodies == {tNoLessons, tNotFound, tHoliday, tNoLessonsOtherCase, tLogin, tLessons, tBlank, Missing}

Page(nav, dump, redirected, body, x1, x2, x3, xr, css) ==
    [nav |-> nav, dump_raises |-> dump, redirected |-> redirected, body |-> body,
     xpath |-> <<x1, x2, x3>>, xpath_raises |-> xr, css |-> css]

\* the results of the nine CSS selectors when only the j-th matches
CssOnly(j, elems) == [i \in 1..9 |-> IF i = j THEN elems ELSE <<>>]
NoCss == CssOnly(0, <<>>)

\* the pages the extractor is checked on
AllPages ==
    { Page("ok", FALSE, body = tLogin, body, x[1], x[2], x[3], xr, CssOnly(j, c)) :
        body \in Bodies, x \in [1..3 -> {<<>>, <<nAlgebra>>, <<nMenu, nAlgebra, nAlgebraAgain>>}],
        xr \in 0..3, j \in {1, 9}, c \in {<<>>, <<nAlgebra, nFizika>>, <<nBroken>>} }
    \cup { Page("raise", dump, FALSE, <<>>, <<>>, <<>>, <<>>, 0, NoCss) : dump \in BOOLEAN }
    \cup { Page("ok", FALSE, FALSE, body, l, <<>>, <<>>, 0, NoCss) : body \in Bodies, l \in NodeLists }

\* the lines a lesson node can carry
lnTime == <<"08", ":", "30", "-", "09", ":", "15">>
lnStart == <<"08", ":", "30">>
lnRoomCapital == <<"Kabinet", "204">>
lnRoomLower == <<"kabinet", "204">>
lnRoomNumber == <<"204">>
lnHomework == <<"Uchit", "paragraf", "5">>
lnHomeworkPrefixed == <<"DZ", ":", "uprazhnenie", "12">>
lnLong == <<"Kontrolnaya", "rabota", "po", "teme", "kvadratnye", "uravneniya">>
lnTeacher == <<"Ivanova">>
lnTeacherPrefixed == <<"Uchitel", ":", "Petrov">>

\* the node of a lesson with a time line, a labelled room line and a
\* homework line
nLesson == Node(<<"Algebra">>, <<<<"Algebra">>, lnTime, lnRoomCapital, lnHomework>>, FALSE)
\* a node whose title element is there and is empty
nEmptyTitle == Node(<<>>, <<<<"Fizika">>, lnStart>>, FALSE)

\* single nodes: every title, with or without each kind of line (an empty
\* line stands for a kind that is absent)
LessonNodes ==
    { NodeHw(title, <<first, time, room, other>>, FALSE, hw) :
        title \in {<<"Algebra">>, <<>>, Missing},
        first \in {<<"Algebra">>, <<"Fizika">>},
        time \in {<<>>, lnTime, lnStart},
        room \in {<<>>, lnRoomCapital, lnRoomLower, lnRoomNumber},
        other \in {<<>>, lnHomework, lnHomeworkPrefixed, lnLong, lnTeacher, lnTeacherPrefixed},
        hw \in {Missing, <<>>, <<"paragraf", "5">>} }

\* nodes that repeat subjects, for the lists of several nodes
RepeatNodes == {nAlgebra, nAlgebraAgain, nFizika, nMenu, nLesson, nEmptyTitle}
MaxNodes == 3
RepeatLists == UNION { [1..n -> RepeatNodes] : n \in 0..MaxNodes }

\* a page without phrase whose first XPath strategy finds the nodes
NodePage(elems) == Page("ok", FALSE, FALSE, tLessons, elems, <<>>, <<>>, 0, NoCss)
NodePages ==
    { NodePage(<<node>>) : node \in LessonNodes \cup {nLesson} }
    \cup { NodePage(l) : l \in RepeatLists }

\* the pages the bot's session shows
pgLessons == Page("ok", FALSE, FALSE, tLessons, <<nAlgebra>>, <<>>, <<>>, 0, NoCss)
pgNoLessons == Page("ok", FALSE, FALSE, tNoLessons, <<nMenu>>, <<>>, <<>>, 0, NoCss)
pgBlank == Page("ok", FALSE, FALSE, tBlank, <<>>, <<>>, <<>>, 0, NoCss)
pgLogin == Page("ok", FALSE, TRUE, tLogin, <<>>, <<>>, <<>>, 0, NoCss)
pgError == Page("raise", FALSE, FALSE, <<>>, <<>>, <<>>, <<>>, 0, NoCss)
BotPages == {pgLessons, pgNoLessons, pgBlank, pgLogin, pgError}

(***************************************************************************)
(* Clock and calendar                                                      *)
(***************************************************************************)
Day(t) == t \div 86400
\* strftime("%d.%m.%Y %H:%M"): the minute
DateTime(t) == t \div 60
\* a faulty variant of Weekday: the week is counted from Sunday
WeekdayFromSunday(t) == (Day(t) + 4) % 7

\* datetime.weekday(): 0 is Monday; 1 January 1970 (day 0) was a Thursday
Weekday(t) == (Day(t) + 3) % 7
Hour(t) == (t % 86400) \div 3600
Minute(t) == (t % 3600) \div 60

DigitValue(ch) ==
    CASE ch = "0" -> 0 [] ch = "1" -> 1 [] ch = "2" -> 2 [] ch = "3" -> 3 [] ch = "4" -> 4
      [] ch = "5" -> 5 [] ch = "6" -> 6 [] ch = "7" -> 7 [] ch = "8" -> 8 [] ch = "9" -> 9

\* int() of a run of digits
RECURSIVE ToInt(_)
ToInt(digits) ==
    IF digits = <<>> THEN 0
    ELSE 10 * ToInt(SubSeq(digits, 1, Len(digits) - 1)) + DigitValue(digits[Len(digits)])

\* map(int, settings['time'].split(':')) for a time text with one colon
ParseTime(text) ==
    LET colon == CHOOSE i \in 1..Len(text) : text[i] = ":"
    IN  <<ToInt(SubSeq(text, 1, colon - 1)), ToInt(SubSeq(text, colon + 1, Len(text)))>>

Midnight == <<"0", "0", ":", "0", "0">>
FivePastMidnight == <<"0", "0", ":", "0", "5">>
SendTimes == {Midnight}

(***************************************************************************)
(* The bot: state                                                          *)
(***************************************************************************)
Users == {"u1", "u2"}
Chats == {"c1", "c2"}
\* the coroutines that call get_schedule: the update handler (updates are
\* handled one at a time) and one digest send per chat
TaskIds == {"ui"} \cup Chats
\* date keys (DD-MM-YYYY), as the number of the day
Dates == (StartDay + 1)..(StartDay + MaxDays + 1)
\* the dates users pick in the calendar
ClickDates == {StartDay + 1, StartDay + 2}
\* the user and the date of the clicks that run beside the digest
DigestUsers == {"u1"}
DigestClickDates == {StartDay + 1}
\* the steps of the clock
Ticks == {15, REFRESH_COOLDOWN, CACHE_TTL}

VARIABLES
    now,                  \* time.time()
    ticks,                \* clock steps taken
    schedule_cache,       \* date -> entry
    schedule_cache_pkl,   \* schedule_cache.pkl
    last_update_times,    \* date -> last update record
    last_update_pkl,      \* last_update_times.pkl
    scheduler_instance,   \* id of the shared session, 0 for None
    scheduler_last_used,
    sessions,             \* session id -> "open" | "closed"
    last_refresh_times,   \* <<user, date>> -> time of the last manual refresh, 0 when absent
    group_subscriptions,  \* chat -> settings
    group_settings_pkl,   \* group_settings.pkl
    tasks,                \* task id -> coroutine state
    running,              \* extractions executing in the thread pool
    next_digest,          \* earliest time of the next check_group_schedules run
    \* history of the whole run
    poisoned,             \* sessions an extraction threw on or was abandoned on
    last_accept,          \* the last manual refresh that was accepted
    extractor_calls,      \* calls of MosregSchedule.get_schedule
    sent,                 \* chat -> messages delivered
    write_failures,       \* snapshot writes that failed
    \* what the last step did
    gs_call,              \* the call of get_schedule it made
    returned,             \* the return of get_schedule it made
    fetched,              \* the extraction it completed
    reply,                \* the answer it gave to a refresh press
    \* homework marks and the life of the process
    hw_status_data,       \* <<user, date, subject index>> -> "absent" | "done" | "open"
    hw_status_pkl,        \* hw_status.pkl
    next_sweep,           \* earliest time of the next run of the clean_cache job
    restarts,             \* restarts of the process so far
    \* the /groups conversation
    conversations,        \* <<chat, user>> -> "end" | "time" | "confirm"
    user_data,            \* user -> context.user_data: the chat_id and the time stored
    time_entered          \* history: <<chat, user>> -> the time last accepted in that chat

cacheVars == <<schedule_cache, schedule_cache_pkl, last_update_pkl>>
sessionVars == <<scheduler_instance, scheduler_last_used, sessions>>
groupVars == <<group_subscriptions, group_settings_pkl, sent>>
eventVars == <<gs_call, returned, fetched, reply>>
hwVars == <<hw_status_data, hw_status_pkl>>
processVars == <<next_sweep, restarts>>
flowVars == <<conversations, user_data, time_entered>>
vars == <<now, ticks, cacheVars, last_update_times, sessionVars, last_refresh_times,
          groupVars, tasks, running, next_digest, poisoned, last_accept, extractor_calls, write_failures, eventVars,
          hwVars, processVars, flowVars>>

\* the administrators who configure the digest, and the user_data of one who
\* has stored nothing
Admins == {"u1"}
NoUserData == [chat_id |-> "none", time |-> <<>>]

\* the homework marks a user can set: subject indexes of the dates they open
HwIndexes == {0, 1}
\* a date of marks loaded from hw_status.pkl that is more than 30 days before
\* the start
OldHwDates == {StartDay - MAX_HW_AGE \div 86400 - 1}
HwDays == ClickDates \cup OldHwDates
HwKeys == Users \X HwDays \X HwIndexes
NoMarks == [key \in HwKeys |-> "absent"]

NoEntry == [present |-> FALSE, data |-> None, timestamp |-> 0]
NoUpdate == [present |-> FALSE, timestamp |-> 0, datetime |-> 0]
NoSubscription == [present |-> FALSE, time |-> <<>>, last_sent_date |-> 0]
IdleTask ==
    [pc |-> "idle", user |-> "none", date |-> 0, force |-> FALSE, current_time |-> 0,
     started |-> 0, job |-> 0, current_date |-> 0]
NoPage ==
    [nav |-> "none", dump_raises |-> FALSE, redirected |-> FALSE, body |-> <<>>,
     xpath |-> << <<>>, <<>>, <<>> >>, xpath_raises |-> 0, css |-> <<>>]
NoCall == [task |-> "none", date |-> 0, force |-> FALSE]
NoReturn ==
    [task |-> "none", date |-> 0, force |-> FALSE, outcome |-> "none", lessons |-> None,
     filtered_lessons |-> None]
NoFetch == [date |-> 0, sess |-> 0, page |-> NoPage, raw |-> None, lessons |-> None]
NoReply == [user |-> "none", date |-> 0, at |-> 0, accepted |-> FALSE, remaining |-> 0]
NoAccept == [user |-> "none", date |-> 0, at |-> 0]

StartTime == StartDay * 86400

(***************************************************************************)
(* Initial state: main() has loaded the snapshots, no session exists, and   *)
(* the first run of the digest job is due                                  *)
(***************************************************************************)
Subscription(time) == [present |-> TRUE, time |-> time, last_sent_date |-> 0]
InitSubscriptions == [Chats -> {Subscription(t) : t \in SendTimes}]

\* the state after main() loaded the snapshots `cache`, `subs` and `marks` at
\* time t
InitWith(t, cache, subs, marks) ==
    /\ now = t
    /\ ticks = 0
    /\ schedule_cache = cache
    /\ schedule_cache_pkl = schedule_cache
    /\ last_update_times = [d \in Dates |-> NoUpdate]
    /\ last_update_pkl = last_update_times
    /\ scheduler_instance = 0
    /\ scheduler_last_used = 0
    /\ sessions = <<>>
    /\ last_refresh_times = [key \in Users \X ClickDates |-> 0]
    /\ group_settings_pkl = subs
    /\ group_subscriptions = group_settings_pkl
    /\ tasks = [k \in TaskIds |-> IdleTask]
    /\ running = {}
    /\ next_digest = t
    /\ poisoned = {}
    /\ last_accept = NoAccept
    /\ extractor_calls = 0
    /\ sent = [c \in Chats |-> 0]
    /\ write_failures = 0
    /\ gs_call = NoCall
    /\ returned = NoReturn
    /\ fetched = NoFetch
    /\ reply = NoReply
    /\ hw_status_data = marks
    /\ hw_status_pkl = hw_status_data
    /\ next_sweep = t + SWEEP_FIRST
    /\ restarts = 0
    /\ conversations = [key \in Chats \X Admins |-> "end"]
    /\ user_data = [u \in Admins |-> NoUserData]
    /\ time_entered = [key \in Chats \X Admins |-> <<>>]

\* the same with no homework marks saved
InitAt(t, cache, subs) == InitWith(t, cache, subs, NoMarks)

Init == \E subs \in InitSubscriptions : InitAt(StartTime, [d \in Dates |-> NoEntry], subs)

(***************************************************************************)
(* get_schedule and get_scheduler                                          *)
(***************************************************************************)
\* a faulty variant of IsFresh: the comparison with the TTL is turned round
InvertedFresh(entry, current_time) ==
    entry.present /\ current_time - entry.timestamp >= CACHE_TTL

\* the freshness test of get_schedule
IsFresh(entry, current_time) ==
    entry.present /\ current_time - entry.timestamp < CACHE_TTL

\* a faulty variant of Fallback: the empty list when there is no entry
FallbackEmpty(date) ==
    IF schedule_cache[date].present THEN schedule_cache[date].data ELSE List(<<>>)

\* the fallback of the failure branches: the entry, even stale, else None
Fallback(date) ==
    IF schedule_cache[date].present THEN schedule_cache[date].data ELSE None

\* get_scheduler's test for creating a session
\* a faulty variant of NeedsNewSession: a session is kept however long ago
\* it was used
NeedsFirstSession(current_time) == scheduler_instance = 0

NeedsNewSession(current_time) ==
    scheduler_instance = 0 \/ current_time - scheduler_last_used > SCHEDULER_TIMEOUT

Creating == {k \in TaskIds : tasks[k].pc = "creating"}

\* jobs holding a worker of thread_pool
PoolBusy == Cardinality(running) + Cardinality(Creating)

\* format_schedule's test on one lesson: a subject that starts with the group
\* word is ignored unless it contains the exempting suffix
ShouldIgnore(lesson) ==
    /\ StartsWith(Lower(lesson.subject), <<"gruppa">>)
    /\ ~Contains(Lower(lesson.subject), <<"_", "rov">>)

KeepLesson(lesson) == ~ShouldIgnore(lesson)

\* format_schedule(lessons, date_str)[1]: the lessons of the message, None
\* when there is nothing to show
FormatSchedule(lessons) ==
    IF lessons.isNone \/ lessons.items = <<>> THEN None
    ELSE LET filtered_lessons == SelectSeq(lessons.items, KeepLesson)
         IN  IF filtered_lessons = <<>> THEN None ELSE List(filtered_lessons)

\* a faulty variant of UiReturn: the records are left as the handler set them
UiReturnNoStamp(rec, lessons, lrt, lut) ==
    /\ tasks' = [tasks EXCEPT !["ui"] = IdleTask]
    /\ last_refresh_times' = lrt
    /\ last_update_times' = lut

\* show_schedule_for_date after get_schedule returned: a forced refresh stamps
\* the cooldown and the update record again, with the time of the return
UiReturn(rec, lessons, lrt, lut) ==
    /\ tasks' = [tasks EXCEPT !["ui"] = IdleTask]
    /\ last_refresh_times' =
          IF rec.force THEN [lrt EXCEPT ![<<rec.user, rec.date>>] = now] ELSE lrt
    /\ last_update_times' =
          IF rec.force
          THEN [lut EXCEPT ![rec.date] = [present |-> TRUE, timestamp |-> now, datetime |-> DateTime(now)]]
          ELSE lut

\* a faulty variant of SendReturn: a failed fetch ends the sends of all chats
SendReturnAbortsAll(c, rec, lessons, lrt, lut) ==
    /\ tasks' = [k \in TaskIds |->
          IF lessons.isNone
          THEN (IF k \in Chats THEN IdleTask ELSE tasks[k])
          ELSE IF k = c
          THEN [IdleTask EXCEPT !.pc = "sending", !.current_date = rec.current_date]
          ELSE tasks[k]]
    /\ last_refresh_times' = lrt
    /\ last_update_times' = lut

\* send_schedule_to_group after get_schedule returned: send unless None
SendReturn(c, rec, lessons, lrt, lut) ==
    /\ tasks' = [tasks EXCEPT ![c] =
          IF lessons.isNone THEN IdleTask
          ELSE [IdleTask EXCEPT !.pc = "sending", !.current_date = rec.current_date]]
    /\ last_refresh_times' = lrt
    /\ last_update_times' = lut

\* get_schedule returns lessons to its caller, which continues
Return(k, rec, lessons, outcome, lrt, lut) ==
    /\ returned' = [task |-> k, date |-> rec.date, force |-> rec.force,
                    outcome |-> outcome, lessons |-> lessons,
                    filtered_lessons |-> FormatSchedule(lessons)]
    /\ IF k = "ui" THEN UiReturn(rec, lessons, lrt, lut)
       ELSE SendReturn(k, rec, lessons, lrt, lut)

\* run_in_executor(thread_pool, get_schedule_blocking) under wait_for
StartExtraction(k, rec, scheduler) ==
    /\ extractor_calls' = extractor_calls + 1
    /\ running' = running \cup
          {[id |-> extractor_calls + 1, sess |-> scheduler, date |-> rec.date,
            abandoned |-> FALSE]}
    /\ tasks' = [tasks EXCEPT ![k] =
          [rec EXCEPT !.pc = "extracting", !.started = now, !.job = extractor_calls + 1]]
    /\ returned' = NoReturn

\* get_schedule(date, force_refresh) called by task k, up to its first
\* suspension; lrt and lut are the caller's cooldown and update records
GetSchedule(k, rec0, lrt, lut) ==
    LET rec == [rec0 EXCEPT !.current_time = now]
        entry == schedule_cache[rec.date]
    IN  /\ gs_call' = [task |-> k, date |-> rec.date, force |-> rec.force]
        /\ fetched' = NoFetch
        /\ UNCHANGED <<cacheVars, poisoned>>
        /\ IF ~rec.force /\ IsFresh(entry, rec.current_time)
           THEN /\ Return(k, rec, entry.data, "hit", lrt, lut)
                /\ UNCHANGED <<sessionVars, running, extractor_calls>>
           ELSE /\ PoolBusy < max_workers
                /\ extractor_calls + Cardinality(Creating) < MaxExtractions
                /\ last_refresh_times' = lrt
                /\ last_update_times' = lut
                /\ IF NeedsNewSession(rec.current_time)
                   THEN /\ Len(sessions) + Cardinality(Creating) < MaxSessions
                        /\ sessions' =
                              IF scheduler_instance # 0
                              THEN [sessions EXCEPT ![scheduler_instance] = "closed"]
                              ELSE sessions
                        /\ tasks' = [tasks EXCEPT ![k] = [rec EXCEPT !.pc = "creating"]]
                        /\ returned' = NoReturn
                        /\ UNCHANGED <<scheduler_instance, scheduler_last_used, running,
                                       extractor_calls>>
                   ELSE /\ scheduler_last_used' = rec.current_time
                        /\ StartExtraction(k, rec, scheduler_instance)
                        /\ UNCHANGED <<scheduler_instance, sessions>>

\* create_scheduler finished in its worker thread and get_scheduler resumes
CreateDone(k, created) ==
    LET rec == tasks[k]
    IN  /\ rec.pc = "creating"
        /\ gs_call' = NoCall /\ fetched' = NoFetch /\ reply' = NoReply
        /\ UNCHANGED <<hwVars, processVars, flowVars>>
        /\ UNCHANGED <<now, ticks, cacheVars, groupVars, next_digest, poisoned, last_accept, write_failures>>
        /\ IF created
           THEN /\ sessions' = Append(sessions, "open")
                /\ scheduler_instance' = Len(sessions) + 1
                /\ scheduler_last_used' = rec.current_time
                /\ StartExtraction(k, rec, Len(sessions) + 1)
                /\ UNCHANGED <<last_update_times, last_refresh_times>>
           ELSE /\ scheduler_instance' = 0
                /\ Return(k, rec, Fallback(rec.date), "no_session",
                          last_refresh_times, last_update_times)
                /\ UNCHANGED <<scheduler_last_used, sessions, running, extractor_calls>>

\* the job of task k in the pool
JobOf(k) == CHOOSE j \in running : j.id = tasks[k].job

\* a faulty variant of IsResult: an empty list counts as no result
IsNonEmpty(lessons) == ~lessons.isNone /\ lessons.items # <<>>

\* "lessons is not None", the test before the cache is written
IsResult(lessons) == ~lessons.isNone

\* the worker thread returned within the timeout and get_schedule resumes:
\* a result other than None is cached, stamped with the time of the call, and
\* both snapshots are rewritten (a failed write is logged and ignored)
ExtractDone(k, page, update_saved, cache_saved) ==
    LET rec == tasks[k]
        job == JobOf(k)
        raw == MosregGetSchedule(page)
        lessons == GetScheduleBlocking(page)
        cached == [schedule_cache EXCEPT ![rec.date] =
                      [present |-> TRUE, data |-> lessons, timestamp |-> rec.current_time]]
        updated == [last_update_times EXCEPT ![rec.date] =
                      [present |-> TRUE, timestamp |-> rec.current_time, datetime |-> DateTime(now)]]
    IN  /\ rec.pc = "extracting"
        /\ now - rec.started < FETCH_TIMEOUT
        /\ page.nav = "ok" => now - rec.started >= SETTLE_LIST_PAGE + SETTLE_DATE_PAGE
        /\ running' = running \ {job}
        /\ fetched' = [date |-> rec.date, sess |-> job.sess, page |-> page, raw |-> raw,
                       lessons |-> lessons]
        /\ gs_call' = NoCall /\ reply' = NoReply
        /\ poisoned' = IF raw.isNone THEN poisoned \cup {job.sess} ELSE poisoned
        /\ IF IsResult(lessons)
           THEN /\ schedule_cache' = cached
                /\ last_update_pkl' = IF update_saved THEN updated ELSE last_update_pkl
                /\ schedule_cache_pkl' = IF cache_saved THEN cached ELSE schedule_cache_pkl
                /\ write_failures' = write_failures
                      + (IF update_saved THEN 0 ELSE 1) + (IF cache_saved THEN 0 ELSE 1)
                /\ write_failures' <= MaxWriteFailures
                /\ Return(k, rec, lessons, "ok", last_refresh_times, updated)
           ELSE /\ update_saved /\ cache_saved
                /\ UNCHANGED <<cacheVars, write_failures>>
                /\ Return(k, rec, lessons, "extractor_failed",
                          last_refresh_times, last_update_times)
        /\ UNCHANGED <<hwVars, processVars, flowVars>>
        /\ UNCHANGED <<now, ticks, sessionVars, groupVars, next_digest, last_accept,
                       extractor_calls>>

\* asyncio.TimeoutError: the wait is abandoned, the worker thread goes on
Timeout(k) ==
    LET rec == tasks[k]
        job == JobOf(k)
    IN  /\ rec.pc = "extracting"
        /\ now - rec.started >= FETCH_TIMEOUT
        /\ running' = (running \ {job}) \cup {[job EXCEPT !.abandoned = TRUE]}
        /\ poisoned' = poisoned \cup {job.sess}
        /\ gs_call' = NoCall /\ fetched' = NoFetch /\ reply' = NoReply
        /\ Return(k, rec, Fallback(rec.date), "timeout", last_refresh_times, last_update_times)
        /\ UNCHANGED <<hwVars, processVars, flowVars>>
        /\ UNCHANGED <<now, ticks, cacheVars, sessionVars, groupVars, next_digest,
                       last_accept, extractor_calls, write_failures>>

\* no call, return, fetch or reply in this step
Quiet == gs_call' = NoCall /\ returned' = NoReturn /\ fetched' = NoFetch /\ reply' = NoReply

\* an abandoned extraction ends in its worker thread; nobody reads its result
AbandonedDone(job) ==
    /\ job \in running
    /\ job.abandoned
    /\ running' = running \ {job}
    /\ Quiet
    /\ UNCHANGED <<hwVars, processVars, flowVars>>
    /\ UNCHANGED <<now, ticks, cacheVars, last_update_times, sessionVars, last_refresh_times,
                   groupVars, tasks, next_digest, poisoned, last_accept, extractor_calls, write_failures>>

(***************************************************************************)
(* The clock                                                               *)
(***************************************************************************)
\* the deadlines of the waits in progress
Deadlines ==
    {tasks[k].started + FETCH_TIMEOUT : k \in {t \in TaskIds : tasks[t].pc = "extracting"}}

\* time passes: d seconds, or up to the first deadline of a wait
Tick(d) ==
    LET target == now + d
        next == IF \E t \in Deadlines : t < target
                THEN CHOOSE t \in Deadlines : \A u \in Deadlines : t <= u
                ELSE target
    IN  /\ ticks < MaxTicks
        /\ Day(next) <= StartDay + MaxDays
        /\ \A t \in Deadlines : now < t
        /\ now' = next
        /\ ticks' = ticks + 1
        /\ Quiet
        /\ UNCHANGED <<hwVars, processVars, flowVars>>
        /\ UNCHANGED <<cacheVars, last_update_times, sessionVars, last_refresh_times,
                       groupVars, tasks, running, next_digest, poisoned, last_accept,
                       extractor_calls, write_failures>>

(***************************************************************************)
(* The update handler (calendar_callback)                                  *)
(***************************************************************************)
\* "date_<d>": show_schedule_for_date(date)
DateClick(u, d) ==
    /\ tasks["ui"].pc = "idle"
    /\ GetSchedule("ui", [IdleTask EXCEPT !.user = u, !.date = d, !.force = FALSE],
                   last_refresh_times, last_update_times)
    /\ reply' = NoReply
    /\ UNCHANGED <<hwVars, processVars, flowVars>>
    /\ UNCHANGED <<now, ticks, groupVars, next_digest, last_accept, write_failures>>

\* "refresh_<d>": the cooldown test, then show_schedule_for_date(date, force_refresh=True).
\* (When edit_message_reply_markup raises, the handler ends before any assignment.)
RefreshClick(u, d) ==
    LET current_time == now
        last_refresh_time == last_refresh_times[<<u, d>>]
    IN  /\ tasks["ui"].pc = "idle"
        /\ UNCHANGED <<hwVars, processVars, flowVars>>
        /\ UNCHANGED <<now, ticks, groupVars, next_digest>>
        /\ IF current_time - last_refresh_time >= REFRESH_COOLDOWN
           THEN /\ reply' = [user |-> u, date |-> d, at |-> current_time,
                             accepted |-> TRUE, remaining |-> 0]
                /\ last_accept' = [user |-> u, date |-> d, at |-> current_time]
                /\ UNCHANGED write_failures
                /\ GetSchedule("ui",
                      [IdleTask EXCEPT !.user = u, !.date = d, !.force = TRUE],
                      [last_refresh_times EXCEPT ![<<u, d>>] = current_time],
                      [last_update_times EXCEPT ![d] =
                          [present |-> TRUE, timestamp |-> current_time,
                           datetime |-> DateTime(current_time)]])
           ELSE /\ reply' = [user |-> u, date |-> d, at |-> current_time, accepted |-> FALSE,
                             remaining |-> REFRESH_COOLDOWN - (current_time - last_refresh_time)]
                /\ gs_call' = NoCall /\ returned' = NoReturn /\ fetched' = NoFetch
                /\ UNCHANGED <<cacheVars, last_update_times, sessionVars, last_refresh_times,
                               tasks, running, poisoned, last_accept, extractor_calls, write_failures>>

\* "hw_toggle_<d>_<index>_<status>": the mark of the subject becomes the
\* opposite of the status the button carried, the marks are saved (a failed
\* write is logged and ignored), then show_homework_buttons(date) asks
\* get_schedule for the lessons of the date. The button is on a message that
\* showed a subject of the date, so lessons of the date are in the cache
\* (nothing removes an entry), however old.
HwToggle(u, d, subject_index, current_status, saved) ==
    LET new_status == IF current_status = 0 THEN "done" ELSE "open"
        toggled == [hw_status_data EXCEPT ![<<u, d, subject_index>>] = new_status]
    IN  /\ tasks["ui"].pc = "idle"
        /\ schedule_cache[d].present
        /\ FormatSchedule(schedule_cache[d].data) # None
        /\ hw_status_data' = toggled
        /\ hw_status_pkl' = IF saved THEN toggled ELSE hw_status_pkl
        /\ write_failures' = write_failures + (IF saved THEN 0 ELSE 1)
        /\ write_failures' <= MaxWriteFailures
        /\ GetSchedule("ui", [IdleTask EXCEPT !.user = u, !.date = d, !.force = FALSE],
                       last_refresh_times, last_update_times)
        /\ reply' = NoReply
        /\ UNCHANGED <<processVars, flowVars, now, ticks, groupVars, next_digest, last_accept>>

(***************************************************************************)
(* The digest (check_group_schedules, send_schedule_to_group)              *)
(***************************************************************************)
\* a faulty variant of IsDue: the date of the last send is not looked at
IsDueAnyDate(settings, t) ==
    /\ settings.present
    /\ ParseTime(settings.time) = <<Hour(t), Minute(t)>>

\* the test of one subscription in check_group_schedules
IsDue(settings, t) ==
    /\ settings.present
    /\ ParseTime(settings.time) = <<Hour(t), Minute(t)>>
    /\ settings.last_sent_date # Day(t)

\* the minute of t is the send time of some subscription
IsSendMinute(t) ==
    \E c \in Chats : /\ group_subscriptions[c].present
                     /\ ParseTime(group_subscriptions[c].time) = <<Hour(t), Minute(t)>>

\* one run of the job: nothing on Friday and Saturday, else a send per due chat;
\* a run starts only when the run before it has ended.  The runs in minutes that
\* are no subscription's send time do nothing and are left out.
DigestRun ==
    /\ now >= next_digest
    /\ IsSendMinute(now)
    /\ \A c \in Chats : tasks[c].pc = "idle"
    /\ next_digest' = now + DIGEST_INTERVAL
    /\ tasks' = [k \in TaskIds |->
          IF k \in Chats /\ Weekday(now) \notin {4, 5} /\ IsDue(group_subscriptions[k], now)
          THEN [IdleTask EXCEPT !.pc = "start", !.date = Day(now) + 1, !.current_date = Day(now)]
          ELSE tasks[k]]
    /\ Quiet
    /\ UNCHANGED <<hwVars, processVars, flowVars>>
    /\ UNCHANGED <<now, ticks, cacheVars, last_update_times, sessionVars, last_refresh_times,
                   groupVars, running, poisoned, last_accept, extractor_calls,
                   write_failures>>

\* send_schedule_to_group starts: get_schedule(tomorrow)
SendStart(c) ==
    /\ tasks[c].pc = "start"
    /\ GetSchedule(c, tasks[c], last_refresh_times, last_update_times)
    /\ reply' = NoReply
    /\ UNCHANGED <<hwVars, processVars, flowVars>>
    /\ UNCHANGED <<now, ticks, groupVars, next_digest, last_accept, write_failures>>

\* a faulty variant of Marked: the date is recorded whatever the send did
MarkedAnyway(c, current_date, delivered) ==
    [group_subscriptions EXCEPT ![c].last_sent_date = current_date]

\* a faulty variant of Marked: a record is made for a chat that has none
MarkedOrCreated(c, current_date, delivered) ==
    IF delivered
    THEN [group_subscriptions EXCEPT ![c] = [@ EXCEPT !.present = TRUE,
                                                      !.last_sent_date = current_date]]
    ELSE group_subscriptions

\* the assignment to last_sent_date, reached only when send_message returned;
\* for a chat whose subscription was removed meanwhile the subscript raises
\* KeyError and nothing is assigned
Marked(c, current_date, delivered) ==
    IF delivered /\ group_subscriptions[c].present
    THEN [group_subscriptions EXCEPT ![c].last_sent_date = current_date]
    ELSE group_subscriptions

\* bot.send_message returned (delivered) or raised; after a delivery the date is
\* recorded and the settings are saved (a failed write is logged and ignored).
\* The KeyError of a removed subscription is caught by the handler of the
\* function, like the exception of send_message: nothing is saved.
SendDone(c, delivered, saved) ==
    LET rec == tasks[c]
        marked == Marked(c, rec.current_date, delivered)
    IN  /\ rec.pc = "sending"
        /\ tasks' = [tasks EXCEPT ![c] = IdleTask]
        /\ Quiet
        /\ sent' = IF delivered THEN [sent EXCEPT ![c] = @ + 1] ELSE sent
        /\ group_subscriptions' = marked
        /\ IF delivered /\ marked[c].present
           THEN /\ group_settings_pkl' = IF saved THEN marked ELSE group_settings_pkl
                /\ write_failures' = write_failures + (IF saved THEN 0 ELSE 1)
                /\ write_failures' <= MaxWriteFailures
           ELSE /\ saved
                /\ UNCHANGED <<group_settings_pkl, write_failures>>
        /\ UNCHANGED <<hwVars, processVars, flowVars>>
        /\ UNCHANGED <<now, ticks, cacheVars, last_update_times, sessionVars,
                       last_refresh_times, running, next_digest, poisoned, last_accept,
                       extractor_calls>>

(***************************************************************************)
(* The /groups conversation (groups_command, process_time,                 *)
(* confirm_subscription, disable_subscription, cancel)                     *)
(***************************************************************************)
\* the texts an administrator sends as the time: two send times and an hour
\* out of range
InvalidHour == <<"2", "5", ":", "0", "0">>
TimeTexts == {Midnight, FivePastMidnight, InvalidHour}

\* process_time's test of the text
IsTime(time_text) ==
    LET parsed == ParseTime(time_text)
    IN  0 <= parsed[1] /\ parsed[1] < 24 /\ 0 <= parsed[2] /\ parsed[2] < 60

\* what a handler of the conversation leaves alone besides the subscriptions
FlowFrame ==
    /\ Quiet
    /\ UNCHANGED <<hwVars, processVars>>
    /\ UNCHANGED <<now, ticks, cacheVars, last_update_times, sessionVars, last_refresh_times,
                   sent, tasks, running, next_digest, poisoned, last_accept, extractor_calls>>

\* "/groups" by administrator u in group chat c, which has no conversation
\* with u: the chat id is stored in the user's user_data
GroupsCommand(u, c) ==
    /\ conversations[<<c, u>>] = "end"
    /\ user_data' = [user_data EXCEPT ![u].chat_id = c]
    /\ conversations' = [conversations EXCEPT ![<<c, u>>] = "time"]
    /\ UNCHANGED time_entered
    /\ FlowFrame
    /\ UNCHANGED <<group_subscriptions, group_settings_pkl, write_failures>>

\* a text while the conversation waits for the time
ProcessTime(u, c, time_text) ==
    /\ conversations[<<c, u>>] = "time"
    /\ IF IsTime(time_text)
       THEN /\ user_data' = [user_data EXCEPT ![u].time = time_text]
            /\ conversations' = [conversations EXCEPT ![<<c, u>>] = "confirm"]
            /\ time_entered' = [time_entered EXCEPT ![<<c, u>>] = time_text]
       ELSE UNCHANGED flowVars
    /\ FlowFrame
    /\ UNCHANGED <<group_subscriptions, group_settings_pkl, write_failures>>

\* the subscriptions after confirm_subscription stored the settings
Confirmed(chat_id, time_text) ==
    [group_subscriptions EXCEPT ![chat_id] = Subscription(time_text)]

\* a text while the conversation waits for the confirmation: with the word
\* of consent the settings are stored under the chat id and with the time of
\* the user's user_data and saved (a failed write is logged and ignored)
ConfirmSubscription(u, c, consent, saved) ==
    LET chat_id == user_data[u].chat_id
        time_text == user_data[u].time
    IN  /\ conversations[<<c, u>>] = "confirm"
        /\ conversations' = [conversations EXCEPT ![<<c, u>>] = "end"]
        /\ UNCHANGED <<user_data, time_entered>>
        /\ FlowFrame
        /\ IF consent /\ chat_id # "none" /\ time_text # <<>>
           THEN /\ group_subscriptions' = Confirmed(chat_id, time_text)
                /\ group_settings_pkl' =
                      IF saved THEN group_subscriptions' ELSE group_settings_pkl
                /\ write_failures' = write_failures + (IF saved THEN 0 ELSE 1)
                /\ write_failures' <= MaxWriteFailures
           ELSE /\ saved
                /\ UNCHANGED <<group_subscriptions, group_settings_pkl, write_failures>>

\* "/disable" while the conversation waits for the time: the subscription of
\* the chat of the message is deleted and the settings are saved
DisableSubscription(u, c, saved) ==
    /\ conversations[<<c, u>>] = "time"
    /\ conversations' = [conversations EXCEPT ![<<c, u>>] = "end"]
    /\ UNCHANGED <<user_data, time_entered>>
    /\ FlowFrame
    /\ IF group_subscriptions[c].present
       THEN /\ group_subscriptions' = [group_subscriptions EXCEPT ![c] = NoSubscription]
            /\ group_settings_pkl' = IF saved THEN group_subscriptions' ELSE group_settings_pkl
            /\ write_failures' = write_failures + (IF saved THEN 0 ELSE 1)
            /\ write_failures' <= MaxWriteFailures
       ELSE /\ saved
            /\ UNCHANGED <<group_subscriptions, group_settings_pkl, write_failures>>

\* "/cancel" in a conversation
Cancel(u, c) ==
    /\ conversations[<<c, u>>] # "end"
    /\ conversations' = [conversations EXCEPT ![<<c, u>>] = "end"]
    /\ UNCHANGED <<user_data, time_entered>>
    /\ FlowFrame
    /\ UNCHANGED <<group_subscriptions, group_settings_pkl, write_failures>>

(***************************************************************************)
(* The sweep (clean_cache) and the restart of the process                  *)
(***************************************************************************)
\* the parameters clean_cache declares, and the arguments the job queue
\* passes to a job's callback (the context)
clean_cache_parameters == 0
job_callback_arguments == 1

\* the entries clean_cache keeps: those not older than twice the TTL
SweptCache(current_time) ==
    [d \in Dates |->
        IF schedule_cache[d].present /\ current_time - schedule_cache[d].timestamp > CACHE_TTL * 2
        THEN NoEntry ELSE schedule_cache[d]]
SweptUpdates(current_time) ==
    [d \in Dates |->
        IF last_update_times[d].present /\ current_time - last_update_times[d].timestamp > CACHE_TTL * 2
        THEN NoUpdate ELSE last_update_times[d]]
\* the marks it keeps: those of dates not older than 30 days
SweptMarks(current_time) ==
    [key \in HwKeys |->
        IF current_time - key[2] * 86400 > MAX_HW_AGE THEN "absent" ELSE hw_status_data[key]]

\* the users whose record the sweep leaves without a date
EmptiedUsers(current_time) ==
    {u \in Users :
        /\ \E key \in HwKeys : key[1] = u /\ hw_status_data[key] # "absent"
        /\ \A key \in HwKeys : key[1] = u => SweptMarks(current_time)[key] = "absent"}

\* the orders in which hw_status_data.items() can yield the users
SweepOrders ==
    {order \in [1..Cardinality(Users) -> Users] : \A u \in Users : \E i \in DOMAIN order : order[i] = u}

\* the users the loop has handled when it pops the first emptied one
VisitedUsers(order, emptied) ==
    LET first == CHOOSE i \in DOMAIN order :
                    order[i] \in emptied /\ \A j \in 1..(i - 1) : order[j] \notin emptied
    IN  {order[j] : j \in 1..first}

\* the body of clean_cache; each map is saved when something was removed
\* from it.  The loop over hw_status_data.items() pops a user whose record
\* became empty, so the next step of the iteration raises RuntimeError
\* (dictionary changed size during iteration): the users after it keep their
\* old dates and the marks are not saved.
CleanCacheBody(cache_saved, update_saved, hw_saved) ==
    \E order \in SweepOrders :
    LET cache == SweptCache(now)
        updates == SweptUpdates(now)
        emptied == EmptiedUsers(now)
        completed == emptied = {}
        marks == IF completed THEN SweptMarks(now)
                 ELSE [key \in HwKeys |->
                         IF key[1] \in VisitedUsers(order, emptied)
                         THEN SweptMarks(now)[key] ELSE hw_status_data[key]]
        hw_written == completed /\ marks # hw_status_data
        failures == (IF cache # schedule_cache /\ ~cache_saved THEN 1 ELSE 0)
                    + (IF updates # last_update_times /\ ~update_saved THEN 1 ELSE 0)
                    + (IF hw_written /\ ~hw_saved THEN 1 ELSE 0)
    IN  /\ schedule_cache' = cache
        /\ schedule_cache_pkl' =
              IF cache # schedule_cache /\ cache_saved THEN cache ELSE schedule_cache_pkl
        /\ last_update_times' = updates
        /\ last_update_pkl' =
              IF updates # last_update_times /\ update_saved THEN updates ELSE last_update_pkl
        /\ hw_status_data' = marks
        /\ hw_status_pkl' = IF hw_written /\ hw_saved THEN marks ELSE hw_status_pkl
        /\ cache = schedule_cache => cache_saved
        /\ updates = last_update_times => update_saved
        /\ ~hw_written => hw_saved
        /\ write_failures' = write_failures + failures
        /\ write_failures' <= MaxWriteFailures

\* a call of clean_cache with the given number of arguments: with an argument
\* too many the call raises TypeError before the first statement
CleanCacheCall(arguments, cache_saved, update_saved, hw_saved) ==
    IF arguments = clean_cache_parameters
    THEN CleanCacheBody(cache_saved, update_saved, hw_saved)
    ELSE /\ cache_saved /\ update_saved /\ hw_saved
         /\ UNCHANGED <<cacheVars, last_update_times, hwVars, write_failures>>

\* a firing of the repeating job registered for clean_cache: the job queue
\* calls the callback with the context and hands what it raises to the error
\* handler
CleanCacheJob(cache_saved, update_saved, hw_saved) ==
    /\ now >= next_sweep
    /\ next_sweep' = now + SWEEP_INTERVAL
    /\ CleanCacheCall(job_callback_arguments, cache_saved, update_saved, hw_saved)
    /\ Quiet
    /\ UNCHANGED <<now, ticks, sessionVars, last_refresh_times, groupVars, tasks, running,
                   next_digest, poisoned, last_accept, extractor_calls, restarts, flowVars>>

\* a faulty variant of Restart: the schedule cache is not loaded
RestartWithoutCache(graceful, hw_saved) ==
    /\ restarts < MaxRestarts
    /\ graceful \/ hw_saved
    /\ \A k \in TaskIds : tasks[k].pc = "idle"
    /\ running = {}
    /\ restarts' = restarts + 1
    /\ schedule_cache' = [d \in Dates |-> NoEntry]
    /\ last_update_times' = last_update_pkl
    /\ group_subscriptions' = group_settings_pkl
    /\ hw_status_pkl' = IF graceful /\ hw_saved THEN hw_status_data ELSE hw_status_pkl
    /\ hw_status_data' = hw_status_pkl'
    /\ write_failures' = write_failures + (IF hw_saved THEN 0 ELSE 1)
    /\ write_failures' <= MaxWriteFailures
    /\ last_refresh_times' = [key \in Users \X ClickDates |-> 0]
    /\ scheduler_instance' = 0
    /\ scheduler_last_used' = 0
    /\ sessions' = [i \in 1..Len(sessions) |-> "closed"]
    /\ next_digest' = now
    /\ next_sweep' = now + SWEEP_FIRST
    /\ last_accept' = NoAccept
    /\ conversations' = [key \in Chats \X Admins |-> "end"]
    /\ user_data' = [u \in Admins |-> NoUserData]
    /\ time_entered' = [key \in Chats \X Admins |-> <<>>]
    /\ Quiet
    /\ UNCHANGED <<now, ticks, schedule_cache_pkl, last_update_pkl, group_settings_pkl,
                   sent, tasks, running, poisoned, extractor_calls>>

\* the process ends while nothing is in progress and is started again. When
\* it ends by shutdown() the session is closed and the marks are saved (a
\* failed write is logged and ignored); when it is killed nothing is saved.
\* main() then loads the four snapshots and registers the jobs; what was kept
\* in memory only is gone
Restart(graceful, hw_saved) ==
    /\ restarts < MaxRestarts
    /\ graceful \/ hw_saved
    /\ \A k \in TaskIds : tasks[k].pc = "idle"
    /\ running = {}
    /\ restarts' = restarts + 1
    /\ schedule_cache' = schedule_cache_pkl
    /\ last_update_times' = last_update_pkl
    /\ group_subscriptions' = group_settings_pkl
    /\ hw_status_pkl' = IF graceful /\ hw_saved THEN hw_status_data ELSE hw_status_pkl
    /\ hw_status_data' = hw_status_pkl'
    /\ write_failures' = write_failures + (IF hw_saved THEN 0 ELSE 1)
    /\ write_failures' <= MaxWriteFailures
    /\ last_refresh_times' = [key \in Users \X ClickDates |-> 0]
    /\ scheduler_instance' = 0
    /\ scheduler_last_used' = 0
    /\ sessions' = [i \in 1..Len(sessions) |-> "closed"]
    /\ next_digest' = now
    /\ next_sweep' = now + SWEEP_FIRST
    /\ last_accept' = NoAccept
    /\ conversations' = [key \in Chats \X Admins |-> "end"]
    /\ user_data' = [u \in Admins |-> NoUserData]
    /\ time_entered' = [key \in Chats \X Admins |-> <<>>]
    /\ Quiet
    /\ UNCHANGED <<now, ticks, schedule_cache_pkl, last_update_pkl, group_settings_pkl,
                   sent, tasks, running, poisoned, extractor_calls>>

(***************************************************************************)
(* Specifications                                                          *)
(***************************************************************************)
\* the digest of both chats, beside a user who opens the day it is about; the
\* refresh button is pressed under SpecRefresh
Next ==
    \/ \E d \in Ticks : Tick(d)
    \/ \E u \in DigestUsers, d \in DigestClickDates : DateClick(u, d)
    \/ DigestRun
    \/ \E c \in Chats : SendStart(c)
    \/ \E c \in Chats, delivered \in BOOLEAN, saved \in BOOLEAN : SendDone(c, delivered, saved)
    \/ \E k \in TaskIds, created \in BOOLEAN : CreateDone(k, created)
    \/ \E k \in TaskIds, page \in BotPages, update_saved \in BOOLEAN, cache_saved \in BOOLEAN :
          ExtractDone(k, page, update_saved, cache_saved)
    \/ \E k \in TaskIds : Timeout(k)
    \/ \E job \in running : AbandonedDone(job)

Spec == Init /\ [][Next]_vars

\* the extractor alone, on every page of AllPages
Extract(page) ==
    /\ fetched = NoFetch
    /\ fetched' = [date |-> StartDay + 1, sess |-> 0, page |-> page,
                   raw |-> MosregGetSchedule(page), lessons |-> GetScheduleBlocking(page)]
    /\ UNCHANGED <<hwVars, processVars, flowVars>>
    /\ UNCHANGED <<now, ticks, cacheVars, last_update_times, sessionVars, last_refresh_times,
                   groupVars, tasks, running, next_digest, poisoned, last_accept,
                   extractor_calls, write_failures, gs_call, returned, reply>>

NextExtract == \E page \in AllPages : Extract(page)

SpecExtract == Init /\ [][NextExtract]_vars

\* the extractor alone, on the pages of NodePages: the reading of the nodes
NextNodes == \E page \in NodePages : Extract(page)

SpecNodes == Init /\ [][NextNodes]_vars

\* the display of cached schedules: the cache loaded at start holds, for every
\* date, one list of FormatLists, and the user opens dates
GroupSubjects ==
    { <<"Gruppa", "3">>, <<"Gruppa", "_", "OVZ">>, <<"Gruppa", "_", "ROV">>, <<"Algebra">> }
FormatLists == UNION { [1..n -> {LessonInfo(subject) : subject \in GroupSubjects}] : n \in 0..MaxNodes }

InitFormat ==
    \E lessons \in FormatLists, subs \in InitSubscriptions :
        InitAt(StartTime,
               [d \in Dates |-> [present |-> TRUE, data |-> List(lessons), timestamp |-> StartTime]],
               subs)

NextFormat ==
    \/ \E d \in Ticks : Tick(d)
    \/ \E u \in Users, d \in ClickDates : DateClick(u, d)

SpecFormat == InitFormat /\ [][NextFormat]_vars

\* the homework marks: users open a date and toggle the marks of its subjects
HwDates == {StartDay + 1}
NextHomework ==
    \/ \E d \in Ticks : Tick(d)
    \/ \E u \in Users, d \in HwDates : DateClick(u, d)
    \/ \E u \in Users, d \in HwDates, i \in HwIndexes, status \in {0, 1}, saved \in BOOLEAN :
          HwToggle(u, d, i, status, saved)
    \/ \E created \in BOOLEAN : CreateDone("ui", created)
    \/ \E page \in {pgLessons, pgError}, update_saved \in BOOLEAN, cache_saved \in BOOLEAN :
          ExtractDone("ui", page, update_saved, cache_saved)
    \/ Timeout("ui")
    \/ \E job \in running : AbandonedDone(job)

SpecHomework == Init /\ [][NextHomework]_vars

\* the three saved maps and a restart: one user opens a date and toggles a
\* mark, the digest serves one chat, and the process is restarted once
RestartUsers == {"u1"}
RestartChats == {"c1"}
RestartIndexes == {0}
NextRestart ==
    \/ \E d \in Ticks : Tick(d)
    \/ \E u \in RestartUsers, d \in HwDates : DateClick(u, d)
    \/ \E u \in RestartUsers, d \in HwDates, i \in RestartIndexes, status \in {0, 1},
          saved \in BOOLEAN : HwToggle(u, d, i, status, saved)
    \/ DigestRun
    \/ \E c \in RestartChats : SendStart(c)
    \/ \E c \in RestartChats, delivered \in BOOLEAN, saved \in BOOLEAN :
          SendDone(c, delivered, saved)
    \/ \E k \in {"ui"} \cup RestartChats, created \in BOOLEAN : CreateDone(k, created)
    \/ \E k \in {"ui"} \cup RestartChats, page \in {pgLessons, pgError},
          update_saved \in BOOLEAN, cache_saved \in BOOLEAN :
          ExtractDone(k, page, update_saved, cache_saved)
    \/ \E k \in {"ui"} \cup RestartChats : Timeout(k)
    \/ \E job \in running : AbandonedDone(job)
    \/ \E graceful \in BOOLEAN, hw_saved \in BOOLEAN : Restart(graceful, hw_saved)

InitRestart ==
    InitAt(StartTime, [d \in Dates |-> NoEntry],
           [c \in Chats |-> IF c \in RestartChats THEN Subscription(Midnight) ELSE NoSubscription])

SpecRestart == InitRestart /\ [][NextRestart]_vars

\* the sweep: the cache loaded at start holds entries of several ages, the
\* clean_cache job fires, and a user opens dates
EntryAges == {0, CACHE_TTL, CACHE_TTL * 2, CACHE_TTL * 2 + 1, CACHE_TTL * 3}
AgedEntries ==
    {NoEntry} \cup
    { [present |-> TRUE, data |-> List(<<LessonInfo(<<"Algebra">>)>>), timestamp |-> StartTime - age] :
        age \in EntryAges }
InitSweep ==
    \E cache \in [Dates -> AgedEntries], subs \in InitSubscriptions :
        InitAt(StartTime, cache, subs)

NextSweep ==
    \/ \E d \in Ticks : Tick(d)
    \/ \E cache_saved \in BOOLEAN, update_saved \in BOOLEAN, hw_saved \in BOOLEAN :
          CleanCacheJob(cache_saved, update_saved, hw_saved)
    \/ \E u \in DigestUsers, d \in DigestClickDates : DateClick(u, d)
    \/ \E created \in BOOLEAN : CreateDone("ui", created)
    \/ \E page \in {pgLessons, pgError}, update_saved \in BOOLEAN, cache_saved \in BOOLEAN :
          ExtractDone("ui", page, update_saved, cache_saved)
    \/ Timeout("ui")
    \/ \E job \in running : AbandonedDone(job)

SpecSweep == InitSweep /\ [][NextSweep]_vars

\* the sweep of the homework marks: hw_status.pkl loaded at start holds, for
\* each user, marks of an old date and of tomorrow or none
LoadedMarks ==
    {marks \in [HwKeys -> {"absent", "done"}] :
        \A key \in HwKeys : marks[key] = "done" => key[2] # StartDay + 2 /\ key[3] = 0}
InitMarks ==
    \E marks \in LoadedMarks, subs \in InitSubscriptions :
        InitWith(StartTime, [d \in Dates |-> NoEntry], subs, marks)

SpecMarks == InitMarks /\ [][NextSweep]_vars

\* the update handler alone: every user on every date, with the refresh
\* button, and no digest
NextRefresh ==
    \/ \E d \in Ticks : Tick(d)
    \/ \E u \in Users, d \in ClickDates : DateClick(u, d)
    \/ \E u \in Users, d \in ClickDates : RefreshClick(u, d)
    \/ \E created \in BOOLEAN : CreateDone("ui", created)
    \/ \E page \in BotPages, update_saved \in BOOLEAN, cache_saved \in BOOLEAN :
          ExtractDone("ui", page, update_saved, cache_saved)
    \/ Timeout("ui")
    \/ \E job \in running : AbandonedDone(job)

SpecRefresh == Init /\ [][NextRefresh]_vars

\* the digest alone, started on a Thursday, a Friday or a Saturday with
\* subscriptions of either send time, already served today or not
DigestStartDays == {StartDay, StartDay + 1, StartDay + 2}
DigestSubscriptions(day) ==
    {[Subscription(t) EXCEPT !.last_sent_date = last] :
        t \in {Midnight, FivePastMidnight}, last \in {0, day}}

InitDigest ==
    \E day \in DigestStartDays : \E subs \in [Chats -> DigestSubscriptions(day)] :
        InitAt(day * 86400, [d \in Dates |-> NoEntry], subs)

NextDigest ==
    \/ \E d \in Ticks : Tick(d)
    \/ DigestRun
    \/ \E c \in Chats : SendStart(c)
    \/ \E c \in Chats, delivered \in BOOLEAN, saved \in BOOLEAN : SendDone(c, delivered, saved)
    \/ \E c \in Chats, created \in BOOLEAN : CreateDone(c, created)
    \/ \E c \in Chats, page \in BotPages, update_saved \in BOOLEAN, cache_saved \in BOOLEAN :
          ExtractDone(c, page, update_saved, cache_saved)
    \/ \E c \in Chats : Timeout(c)
    \/ \E job \in running : AbandonedDone(job)

SpecDigest == InitDigest /\ [][NextDigest]_vars

\* the digest of one chat beside one user who opens tomorrow's date and
\* presses its refresh button; the chat's subscription has either send time
\* and was served today or not
InitShared ==
    \E settings \in DigestSubscriptions(StartDay) :
        InitAt(StartTime, [d \in Dates |-> NoEntry],
               [c \in Chats |-> IF c \in RestartChats THEN settings ELSE NoSubscription])

NextShared ==
    \/ \E d \in Ticks : Tick(d)
    \/ \E u \in DigestUsers, d \in DigestClickDates : DateClick(u, d)
    \/ \E u \in DigestUsers, d \in DigestClickDates : RefreshClick(u, d)
    \/ DigestRun
    \/ \E c \in RestartChats : SendStart(c)
    \/ \E c \in RestartChats, delivered \in BOOLEAN, saved \in BOOLEAN :
          SendDone(c, delivered, saved)
    \/ \E k \in {"ui"} \cup RestartChats, created \in BOOLEAN : CreateDone(k, created)
    \/ \E k \in {"ui"} \cup RestartChats, page \in {pgLessons, pgError},
          update_saved \in BOOLEAN, cache_saved \in BOOLEAN :
          ExtractDone(k, page, update_saved, cache_saved)
    \/ \E k \in {"ui"} \cup RestartChats : Timeout(k)
    \/ \E job \in running : AbandonedDone(job)

SpecShared == InitShared /\ [][NextShared]_vars

\* the /groups conversation alone: one administrator of both chats, each
\* chat subscribed or not at the start
FlowSubscriptions == {NoSubscription, Subscription(Midnight)}
InitGroups ==
    \E subs \in [Chats -> FlowSubscriptions] :
        InitAt(StartTime, [d \in Dates |-> NoEntry], subs)

NextGroups ==
    \/ \E u \in Admins, c \in Chats : GroupsCommand(u, c)
    \/ \E u \in Admins, c \in Chats, time_text \in TimeTexts : ProcessTime(u, c, time_text)
    \/ \E u \in Admins, c \in Chats, consent \in BOOLEAN, saved \in BOOLEAN :
          ConfirmSubscription(u, c, consent, saved)
    \/ \E u \in Admins, c \in Chats, saved \in BOOLEAN : DisableSubscription(u, c, saved)
    \/ \E u \in Admins, c \in Chats : Cancel(u, c)

SpecGroups == InitGroups /\ [][NextGroups]_vars

\* one day of the digest of one chat while its administrator changes or
\* removes the subscription: the clock moves by seconds and minutes only
DayTicks == {15, REFRESH_COOLDOWN}
NextSubscribed ==
    \/ \E d \in DayTicks : Tick(d)
    \/ DigestRun
    \/ \E c \in RestartChats : SendStart(c)
    \/ \E c \in RestartChats, delivered \in BOOLEAN, saved \in BOOLEAN :
          SendDone(c, delivered, saved)
    \/ \E c \in RestartChats, created \in BOOLEAN : CreateDone(c, created)
    \/ \E c \in RestartChats, page \in {pgLessons, pgError},
          update_saved \in BOOLEAN, cache_saved \in BOOLEAN :
          ExtractDone(c, page, update_saved, cache_saved)
    \/ \E c \in RestartChats : Timeout(c)
    \/ \E job \in running : AbandonedDone(job)
    \/ \E u \in Admins, c \in RestartChats : GroupsCommand(u, c)
    \/ \E u \in Admins, c \in RestartChats, time_text \in TimeTexts : ProcessTime(u, c, time_text)
    \/ \E u \in Admins, c \in RestartChats, consent \in BOOLEAN, saved \in BOOLEAN :
          ConfirmSubscription(u, c, consent, saved)
    \/ \E u \in Admins, c \in RestartChats, saved \in BOOLEAN : DisableSubscription(u, c, saved)
    \/ \E u \in Admins, c \in RestartChats : Cancel(u, c)

SpecSubscribed == InitRestart /\ [][NextSubscribed]_vars

(***************************************************************************)
(* Properties                                                              *)
(***************************************************************************)
\* C1: a call get_schedule(d, force_refresh=False) made while the cache holds
\* an entry for d that is less than CACHE_TTL (172800) seconds old returns the
\* data of that entry at once, invokes no extraction (the count of extractor
\* calls and the jobs of the pool are unchanged), neither creates nor touches
\* the shared session, and leaves the cache and its snapshot unchanged.
C1_FreshHit ==
    [][ ( /\ gs_call' # NoCall
          /\ ~gs_call'.force
          /\ schedule_cache[gs_call'.date].present
          /\ now - schedule_cache[gs_call'.date].timestamp < 172800 )
        => /\ returned'.task = gs_call'.task
           /\ returned'.date = gs_call'.date
           /\ returned'.outcome = "hit"
           /\ returned'.lessons = schedule_cache[gs_call'.date].data
           /\ extractor_calls' = extractor_calls
           /\ running' = running
           /\ UNCHANGED sessionVars
           /\ UNCHANGED cacheVars ]_vars

\* a non-forced call has just been answered from a cached list of lessons
C1_Witness ==
    /\ gs_call # NoCall
    /\ ~gs_call.force
    /\ returned.outcome = "hit"
    /\ returned.lessons = schedule_cache[gs_call.date].data
    /\ returned.lessons.items # <<>>
    /\ extractor_calls = 1

\* C2: when a refresh for d fails (the extractor raised or returned its failure
\* value, or the 20 s timeout expired) and the cache holds an entry for d,
\* get_schedule returns the data of that entry.
C2_FallbackOnFailure ==
    ( /\ returned.outcome \in {"extractor_failed", "timeout"}
      /\ schedule_cache[returned.date].present )
    => returned.lessons = schedule_cache[returned.date].data

\* the page shows no fixed phrase and no indicator of a day without lessons
NoPhrase(page) ==
    /\ page.body # Missing
    /\ ~ContainsAny(page.body, no_lessons_texts)
    /\ ~ContainsAny(Lower(page.body), no_lessons_indicators)

\* what the specification calls ExtractionFailed: the page was loaded, no
\* selector strategy matched and no phrase was found
IsExtractionFailed(page) ==
    page.nav = "ok" /\ NoPhrase(page) /\ LessonElements(page) = <<>>

\* what the specification calls AuthRequired: the session was sent to the login page
IsAuthRequired(page) == page.nav = "ok" /\ page.redirected

\* C3: a fetch whose outcome is ExtractionFailed or AuthRequired neither creates
\* nor overwrites a cache entry.
C3_OnlyConfirmedCached ==
    [][ ( /\ fetched' # NoFetch
          /\ IsExtractionFailed(fetched'.page) \/ IsAuthRequired(fetched'.page) )
        => schedule_cache' = schedule_cache ]_vars

\* C4: when the page text holds no phrase and every selector strategy yields
\* zero nodes, the extractor's result differs from the empty list it returns
\* for a page with a phrase.
C4_FailureDistinct ==
    (fetched # NoFetch /\ IsExtractionFailed(fetched.page)) => fetched.raw # List(<<>>)

C6_OneExtractionPerSession ==
    \A j1, j2 \in running : j1.sess = j2.sess => j1 = j2

\* C7: for every date, at most one call of get_schedule is waiting for an
\* extraction of that date: a call that arrives while a refresh of the date
\* is in flight starts no second one.
C7_OneRefreshPerDate ==
    \A k1, k2 \in TaskIds :
        ( /\ tasks[k1].pc = "extracting"
          /\ tasks[k2].pc = "extracting"
          /\ tasks[k1].date = tasks[k2].date ) => k1 = k2

\* C8: an extraction never starts on a session on which an earlier extraction
\* threw or was abandoned at the timeout.
C8_PoisonedSessionNotReused ==
    [][ extractor_calls' = extractor_calls + 1
        => \A j \in running' : j.id = extractor_calls' => j.sess \notin poisoned ]_vars

\* C9 as written: after a refresh by u for d was accepted at time t, a press by u
\* for d at t' is rejected with the remaining wait 300 - (t' - t) when
\* t' - t < 300, and accepted when t' - t >= 300.
C9_FromAcceptance ==
    [][ ( /\ reply' # NoReply
          /\ last_accept # NoAccept
          /\ last_accept.user = reply'.user
          /\ last_accept.date = reply'.date )
        => IF reply'.at - last_accept.at < 300
           THEN ~reply'.accepted /\ reply'.remaining = 300 - (reply'.at - last_accept.at)
           ELSE reply'.accepted ]_vars

\* C9, amended: the cooldown of (u, d) runs from the last stamp of (u, d), which
\* is the time a refresh by u for d was accepted and, once its fetch has
\* returned, the time of that return.  A press by u for d at t' with
\* t' - stamp < 300 is rejected with the remaining wait 300 - (t' - stamp),
\* starts no extraction, is not queued and changes nothing; a press with
\* t' - stamp >= 300 is accepted.  No other user, date or cache entry changes
\* the stamp of (u, d).
C9_FromLastStamp ==
    [][ /\ reply' # NoReply =>
            LET key == <<reply'.user, reply'.date>>
                stamp == last_refresh_times[key]
            IN  /\ reply'.at = now
                /\ reply'.accepted <=> (now - stamp >= 300)
                /\ reply'.accepted => last_refresh_times'[key] = now
                /\ ~reply'.accepted =>
                      /\ reply'.remaining = 300 - (now - stamp)
                      /\ gs_call' = NoCall
                      /\ UNCHANGED <<tasks, running, extractor_calls, last_refresh_times,
                                     last_update_times, cacheVars, sessionVars>>
        /\ (returned' # NoReturn /\ returned'.task = "ui" /\ returned'.force) =>
              last_refresh_times'[<<tasks["ui"].user, returned'.date>>] = now
        /\ \A key \in Users \X ClickDates :
              last_refresh_times'[key] # last_refresh_times[key] =>
                 /\ last_refresh_times'[key] = now
                 /\ \/ reply'.accepted /\ key = <<reply'.user, reply'.date>>
                    \/ /\ returned'.task = "ui" /\ returned'.force
                       /\ key = <<tasks["ui"].user, returned'.date>> ]_vars

\* a press was rejected 300 s or more after the refresh of the same user and
\* date was accepted (its fetch had returned late)
C9_Witness ==
    /\ reply # NoReply
    /\ ~reply.accepted
    /\ last_accept.user = reply.user
    /\ last_accept.date = reply.date
    /\ reply.at - last_accept.at >= 300
    /\ reply.remaining > 0

\* C10: the digest changes a chat's last_sent_date only in the step in which
\* the message to that chat was sent, and then to the date of the digest run;
\* the snapshot changes only in such a step, and then to the subscriptions in
\* memory; a send task that ends without a delivery (the fetch failed, or
\* send_message raised) leaves the subscriptions and the snapshot unchanged.
C10_MarkedOnlyAfterSend ==
    [][ /\ \A c \in Chats :
              group_subscriptions'[c] # group_subscriptions[c] =>
                 /\ sent'[c] = sent[c] + 1
                 /\ group_subscriptions'[c] =
                       [group_subscriptions[c] EXCEPT !.last_sent_date = tasks[c].current_date]
        /\ group_settings_pkl' # group_settings_pkl =>
              /\ \E c \in Chats : sent'[c] = sent[c] + 1
              /\ group_settings_pkl' = group_subscriptions'
        /\ \A c \in Chats :
              (tasks[c].pc # "idle" /\ tasks'[c].pc = "idle" /\ sent'[c] = sent[c]) =>
                 UNCHANGED <<group_subscriptions, group_settings_pkl>> ]_vars

\* one chat has its message and its date, the other's fetch has just failed
\* and its date is still unset
C10_Witness ==
    \E c1, c2 \in Chats :
        /\ sent[c1] = 1
        /\ group_subscriptions[c1].last_sent_date = StartDay
        /\ returned.task = c2
        /\ returned.lessons = None
        /\ tasks[c2].pc = "idle"
        /\ sent[c2] = 0
        /\ group_subscriptions[c2].last_sent_date = 0
        /\ group_settings_pkl[c2].last_sent_date = 0

\* C11: a run of the digest on a Friday (weekday 4) or a Saturday (weekday 5)
\* starts no send and no fetch and changes no subscription, whatever the send
\* times and the last_sent_date of the subscriptions.
C11_WeekendEveSkipped ==
    [][ (next_digest' # next_digest /\ (now \div 86400 + 3) % 7 \in {4, 5})
        => /\ tasks' = tasks
           /\ gs_call' = NoCall
           /\ sent' = sent
           /\ extractor_calls' = extractor_calls
           /\ running' = running
           /\ UNCHANGED <<group_subscriptions, group_settings_pkl>> ]_vars

\* the digest has just run on a Friday in the send minute of a subscription
\* that was not served that day, and no send was started
C11_Witness ==
    /\ next_digest = now + DIGEST_INTERVAL
    /\ (now \div 86400 + 3) % 7 = 4
    /\ \E c \in Chats :
          /\ ParseTime(group_subscriptions[c].time) = <<(now % 86400) \div 3600, (now % 3600) \div 60>>
          /\ group_subscriptions[c].last_sent_date # now \div 86400
    /\ \A c \in Chats : tasks[c].pc = "idle"

\* C12: for the node with the subject line, the time line "08:30-09:15", the
\* room line made of the capitalised label and the number 204, and the
\* homework line, the extractor returns the one record (Algebra, 08:30,
\* 09:15, 204, the homework line, teacher unspecified).
C12_LessonRecord ==
    (fetched # NoFetch /\ fetched.page.xpath[1] = <<nLesson>>)
    => fetched.raw = List(<< [subject |-> <<"Algebra">>,
                              start_time |-> <<"08", ":", "30">>,
                              end_time |-> <<"09", ":", "15">>,
                              room |-> <<"204">>,
                              teacher |-> NotSpecified,
                              homework |-> <<"Uchit", "paragraf", "5">>] >>)

\* the display filter as the claim states it: a subject that starts with the
\* group word is excluded unless it contains the suffix "_OVZ"
ShownAsStated(lesson) ==
    ~( /\ StartsWith(Lower(lesson.subject), <<"gruppa">>)
       /\ ~Contains(Lower(lesson.subject), <<"_", "ovz">>) )

\* C13: the lessons of a displayed schedule are the lessons get_schedule
\* returned without those whose subject starts with the group word and does
\* not contain the suffix "_OVZ", in the order they were returned: "Gruppa_OVZ"
\* is kept and "Gruppa 3" is dropped.
C13_DisplayFilter ==
    (returned # NoReturn /\ ~returned.lessons.isNone /\ ~returned.filtered_lessons.isNone)
    => returned.filtered_lessons.items = SelectSeq(returned.lessons.items, ShownAsStated)

\* the index of the first record of ls with the subject
FirstIndex(ls, subject) ==
    CHOOSE i \in 1..Len(ls) :
        ls[i].subject = subject /\ \A j \in 1..(i - 1) : ls[j].subject # subject

\* C14: a non-empty list returned by the extractor holds, for every subject
\* among the records read from the nodes, exactly one record, which is the
\* first record read with that subject, field for field, and the records
\* stand in the order of these first occurrences.
C14_FirstPerSubject ==
    (fetched # NoFetch /\ ~fetched.raw.isNone /\ fetched.raw.items # <<>>)
    => LET read == CollectLessons(LessonElements(fetched.page))
           out == fetched.raw.items
       IN  /\ \A i \in 1..Len(read) :
                  Cardinality({k \in 1..Len(out) : out[k].subject = read[i].subject}) = 1
           /\ \A k \in 1..Len(out) :
                  /\ \E i \in 1..Len(read) : read[i].subject = out[k].subject
                  /\ out[k] = read[FirstIndex(read, out[k].subject)]
           /\ \A k1, k2 \in 1..Len(out) :
                  k1 < k2 => FirstIndex(read, out[k1].subject) < FirstIndex(read, out[k2].subject)

\* two nodes of one subject with different details, then another subject,
\* were read, and two records were returned, the first with the details of
\* the first node
C14_Witness ==
    /\ fetched # NoFetch
    /\ fetched.page.xpath[1] = <<nAlgebra, nAlgebraAgain, nFizika>>
    /\ Len(CollectLessons(LessonElements(fetched.page))) = 3
    /\ Len(fetched.raw.items) = 2
    /\ fetched.raw.items[1].room = <<"204">>
    /\ fetched.raw.items[2].subject = <<"Fizika">>

\* C15: every record of a list the extractor returns has a subject that is
\* not empty and contains no phrase of the interface vocabulary, whatever
\* the nodes are, a node with an empty title element included.
C15_SubjectPresent ==
    (fetched # NoFetch /\ ~fetched.raw.isNone)
    => \A k \in 1..Len(fetched.raw.items) :
          /\ fetched.raw.items[k].subject # <<>>
          /\ ~ContainsAny(Lower(fetched.raw.items[k].subject), interface_elements)

\* C16: a press of a homework toggle changes the mark of its (user, date,
\* subject index) only; it leaves the other marks, the schedule cache, the
\* cooldown records and the subscriptions as they were, and starts no
\* extraction: the handler ends without asking for a session or a page.
C16_ToggleFrame ==
    [][ hw_status_data' # hw_status_data
        => /\ Cardinality({key \in HwKeys : hw_status_data'[key] # hw_status_data[key]}) = 1
           /\ UNCHANGED <<schedule_cache, last_refresh_times, group_subscriptions>>
           /\ extractor_calls' = extractor_calls
           /\ running' = running
           /\ tasks'["ui"].pc = "idle" ]_vars

\* C17: while no task is in progress and no snapshot write has failed, the
\* saved schedule cache, the saved subscriptions and the saved homework marks
\* equal the maps in memory; a restart at such a point leaves the three maps
\* as they were; and after it a plain call of get_schedule for a date whose
\* entry is less than 172800 seconds old is served from the cache, with no
\* extraction.
C17_SnapshotsFollowMemory ==
    /\ []( ((\A k \in TaskIds : tasks[k].pc = "idle") /\ write_failures = 0)
           => /\ schedule_cache_pkl = schedule_cache
              /\ group_settings_pkl = group_subscriptions
              /\ hw_status_pkl = hw_status_data )
    /\ [][ (restarts' = restarts + 1 /\ write_failures' = 0)
           => /\ schedule_cache' = schedule_cache
              /\ group_subscriptions' = group_subscriptions
              /\ hw_status_data' = hw_status_data ]_vars
    /\ [][ ( /\ restarts >= 1
             /\ write_failures = 0
             /\ gs_call' # NoCall
             /\ ~gs_call'.force
             /\ schedule_cache[gs_call'.date].present
             /\ now - schedule_cache[gs_call'.date].timestamp < 172800 )
           => /\ returned'.task = gs_call'.task
              /\ returned'.lessons = schedule_cache[gs_call'.date].data
              /\ extractor_calls' = extractor_calls
              /\ running' = running ]_vars

\* after a restart with lessons cached, a chat served and a mark set, all
\* saved without failure, a plain call was answered from the cache
C17_Witness ==
    /\ restarts = 1
    /\ write_failures = 0
    /\ returned.outcome = "hit"
    /\ returned.lessons.items # <<>>
    /\ \E c \in Chats : group_subscriptions[c].present /\ group_subscriptions[c].last_sent_date # 0
    /\ \E key \in HwKeys : hw_status_data[key] = "done"
    /\ extractor_calls = 1

\* C18: when an extraction ends in time with the empty list, the entry of its
\* date becomes that list stamped with the time of the call, as for a list
\* of lessons; and a plain call of get_schedule for a date whose entry holds
\* the empty list and is less than 172800 seconds old returns the empty list
\* and starts no extraction.
C18_NoLessonsCached ==
    /\ [][ (fetched' # NoFetch /\ fetched'.lessons = List(<<>>))
           => \E k \in TaskIds :
                 /\ tasks[k].pc = "extracting"
                 /\ tasks'[k].pc # "extracting"
                 /\ tasks[k].date = fetched'.date
                 /\ schedule_cache'[fetched'.date] =
                       [present |-> TRUE, data |-> List(<<>>), timestamp |-> tasks[k].current_time] ]_vars
    /\ [][ ( /\ gs_call' # NoCall
             /\ ~gs_call'.force
             /\ schedule_cache[gs_call'.date].present
             /\ schedule_cache[gs_call'.date].data = List(<<>>)
             /\ now - schedule_cache[gs_call'.date].timestamp < 172800 )
           => /\ returned'.task = gs_call'.task
              /\ returned'.lessons = List(<<>>)
              /\ extractor_calls' = extractor_calls
              /\ running' = running ]_vars

\* the empty list was cached by one extraction and a later plain call of the
\* digest was answered with it from the cache
C18_Witness ==
    /\ returned.outcome = "hit"
    /\ returned.task \in Chats
    /\ returned.lessons = List(<<>>)
    /\ schedule_cache[returned.date].present
    /\ schedule_cache[returned.date].data = List(<<>>)
    /\ extractor_calls = 1

\* C19: each firing of the sweep job removes every cache entry stamped more
\* than twice 172800 seconds ago and keeps every other entry as it is; no
\* other step removes an entry.
C19_SweepRemovesOld ==
    [][ /\ next_sweep' # next_sweep
           => \A d \in Dates :
                 schedule_cache[d].present
                 => IF now - schedule_cache[d].timestamp > 2 * 172800
                    THEN ~schedule_cache'[d].present
                    ELSE schedule_cache'[d] = schedule_cache[d]
        /\ next_sweep' = next_sweep
           => \A d \in Dates : schedule_cache[d].present => schedule_cache'[d].present ]_vars

\* C20: when the wait for an extraction is given up after 20 seconds, the
\* cache and its snapshot stay as they are and the caller gets the entry of
\* the date if there is one and None otherwise, never the empty list for a
\* date without entry; and the end of the abandoned extraction changes
\* neither the cache nor its snapshot.
C20_TimeoutLeavesCache ==
    /\ [][ \A k \in TaskIds :
              ( /\ tasks[k].pc = "extracting"
                /\ now - tasks[k].started >= 20
                /\ tasks'[k].pc # "extracting" )
              => /\ UNCHANGED <<schedule_cache, schedule_cache_pkl>>
                 /\ returned'.task = k
                 /\ returned'.lessons =
                       IF schedule_cache[tasks[k].date].present
                       THEN schedule_cache[tasks[k].date].data
                       ELSE None
                 /\ ~schedule_cache[tasks[k].date].present => returned'.lessons # List(<<>>) ]_vars
    /\ [][ (\E job \in running : job.abandoned /\ job \notin running')
           => UNCHANGED <<schedule_cache, schedule_cache_pkl>> ]_vars

\* a wait was given up for a date without entry: the caller got None, the
\* cache is still empty for the date and the extraction goes on in its thread
C20_Witness ==
    /\ returned.outcome = "timeout"
    /\ returned.lessons = None
    /\ ~schedule_cache[returned.date].present
    /\ \E job \in running : job.abandoned /\ job.date = returned.date

\* C21: when the send of one chat ends without a delivery (its fetch failed
\* or was given up, or send_message raised), the step touches that chat
\* only: the sends of the other chats go on where they were, and their
\* subscriptions and deliveries are as before.
C21_FailureStaysInChat ==
    [][ \A c \in Chats :
          ( /\ tasks[c].pc # "idle"
            /\ tasks'[c].pc = "idle"
            /\ sent'[c] = sent[c] )
          => \A other \in Chats \ {c} :
                /\ tasks'[other] = tasks[other]
                /\ group_subscriptions'[other] = group_subscriptions[other]
                /\ sent'[other] = sent[other] ]_vars

\* two chats were due in the same run and each ran its own extraction: the
\* send of one ended without a delivery, the other got its message and its
\* date was recorded
C21_Witness ==
    \E c, other \in Chats :
        /\ c # other
        /\ tasks[c].pc = "idle" /\ tasks[other].pc = "idle"
        /\ sent[c] = 0
        /\ group_subscriptions[c].last_sent_date = 0
        /\ sent[other] = 1
        /\ group_subscriptions[other].last_sent_date = now \div 86400
        /\ next_digest > StartTime
        /\ extractor_calls = 2

\* C22: a session is asked for only by a call of get_schedule that is forced
\* or finds no entry less than 172800 seconds old. On such a call, when a
\* session exists and was last used at most 600 seconds ago, the extraction
\* starts on it at once and no session is closed or created; when it was last
\* used more than 600 seconds ago it is closed and a session is asked for,
\* and the extraction starts later, on the session created for the call.
C22_SessionLazyAndRenewed ==
    /\ [][ \A k \in TaskIds :
              (tasks[k].pc # "creating" /\ tasks'[k].pc = "creating")
              => /\ gs_call' # NoCall
                 /\ gs_call'.task = k
                 /\ \/ gs_call'.force
                    \/ ~schedule_cache[gs_call'.date].present
                    \/ now - schedule_cache[gs_call'.date].timestamp >= 172800 ]_vars
    /\ [][ ( /\ gs_call' # NoCall
             /\ returned' = NoReturn
             /\ scheduler_instance # 0 )
           => LET k == gs_call'.task
              IN  IF now - scheduler_last_used <= 600
                  THEN /\ tasks'[k].pc = "extracting"
                       /\ \E job \in running' \ running : job.sess = scheduler_instance
                       /\ UNCHANGED <<sessions, scheduler_instance>>
                  ELSE /\ tasks'[k].pc = "creating"
                       /\ sessions'[scheduler_instance] = "closed"
                       /\ running' = running ]_vars
    /\ [][ \A k \in TaskIds :
              (tasks[k].pc = "creating" /\ tasks'[k].pc = "extracting")
              => /\ Len(sessions') = Len(sessions) + 1
                 /\ sessions'[Len(sessions')] = "open"
                 /\ scheduler_instance' = Len(sessions')
                 /\ \E job \in running' \ running : job.sess = Len(sessions') ]_vars

\* a session used more than 600 seconds ago was closed by a later call and
\* the extraction of that call runs on the session created for it
C22_Witness ==
    /\ Len(sessions) = 2
    /\ sessions[1] = "closed"
    /\ sessions[2] = "open"
    /\ scheduler_instance = 2
    /\ \E job \in running : job.sess = 2 /\ ~job.abandoned
    /\ \A job \in running : job.sess = 2

\* C23: the digest starts a send to a chat only in a run whose hour and minute
\* are the chat's send time and only if the chat's last_sent_date is not the
\* day of the run; the send asks get_schedule for the day after the run without
\* force_refresh, so a fresh entry is returned with no extraction and no
\* session; no step of a send changes a user's cooldown record.
C23_DigestReadsThroughCache ==
    [][ \A c \in Chats :
          /\ (tasks[c].pc = "idle" /\ tasks'[c].pc # "idle") =>
                /\ group_subscriptions[c].present
                /\ ParseTime(group_subscriptions[c].time)
                      = <<(now % 86400) \div 3600, (now % 3600) \div 60>>
                /\ group_subscriptions[c].last_sent_date # now \div 86400
                /\ tasks'[c].pc = "start"
                /\ tasks'[c].date = now \div 86400 + 1
          /\ sent'[c] # sent[c] => tasks[c].pc = "sending"
          /\ (gs_call' # NoCall /\ gs_call'.task = c) =>
                /\ tasks[c].pc = "start"
                /\ ~gs_call'.force
                /\ gs_call'.date = tasks[c].date
                /\ ( /\ schedule_cache[tasks[c].date].present
                     /\ now - schedule_cache[tasks[c].date].timestamp < 172800 )
                   => /\ returned'.task = c
                      /\ returned'.lessons = schedule_cache[tasks[c].date].data
                      /\ tasks'[c].pc = "sending"
                      /\ extractor_calls' = extractor_calls
                      /\ UNCHANGED <<running, sessions, scheduler_instance, schedule_cache>>
          /\ tasks'[c] # tasks[c] => UNCHANGED <<last_refresh_times, last_accept>> ]_vars

\* the send has just read the entry the user's refresh had written: one
\* extraction was made, and the user's cooldown record is still the one of the
\* refresh
C23_Witness ==
    \E c \in Chats, u \in Users :
        /\ returned.task = c
        /\ returned.outcome = "hit"
        /\ tasks[c].pc = "sending"
        /\ extractor_calls = 1
        /\ schedule_cache[returned.date].present
        /\ last_refresh_times[<<u, returned.date>>] > 0
        /\ last_accept.user = u

\* C24: after each firing of the sweep job no mark of a date more than 30 days
\* old is left, the marks of the other dates are as they were, and the
\* snapshot of the marks equals the marks if one was removed; this also when
\* the firing removes every date a user has.
C24_SweepPrunesMarks ==
    [][ next_sweep' # next_sweep
        => /\ \A key \in HwKeys :
                 hw_status_data'[key] =
                    IF now - key[2] * 86400 > 2592000 THEN "absent" ELSE hw_status_data[key]
           /\ hw_status_data' # hw_status_data => hw_status_pkl' = hw_status_data' ]_vars

\* C25: the timestamp of a date's cache entry never decreases: a fetch whose
\* get_schedule call started earlier does not replace the entry written by a
\* fetch whose call started later.
C25_EntryNeverOlder ==
    [][ \A d \in Dates :
          (schedule_cache[d].present /\ schedule_cache'[d] # schedule_cache[d])
          => schedule_cache'[d].timestamp >= schedule_cache[d].timestamp ]_vars

\* C26: every session that was created and is not closed is the current
\* scheduler_instance, so at most one session is open at any instant.
C26_OneOpenSession ==
    \A i \in 1..Len(sessions) : sessions[i] = "open" => i = scheduler_instance

\* C30: the update record of a date changes only in a step in which a fetch
\* of that date returned a result other than None and the cache entry of the
\* date was written with it; a refresh whose fetch fails or is given up
\* leaves the record as it was.
C30_UpdateRecordOnlyOnWrite ==
    [][ \A d \in Dates :
          last_update_times'[d] # last_update_times[d]
          => /\ fetched' # NoFetch
             /\ fetched'.date = d
             /\ ~fetched'.lessons.isNone
             /\ schedule_cache'[d].present
             /\ schedule_cache'[d].data = fetched'.lessons ]_vars

\* C27: a confirmation in chat c that changes the subscriptions sets the
\* subscription of chat c, with the time the administrator entered in chat c
\* and no date of a last send, and leaves the subscriptions of the other
\* chats as they were, whatever the administrator did in other chats since
\* entering the time.
C27_ConfirmInOwnChat ==
    [][ \A u \in Admins, c \in Chats :
          ( /\ conversations[<<c, u>>] = "confirm"
            /\ conversations'[<<c, u>>] = "end"
            /\ group_subscriptions' # group_subscriptions )
          => group_subscriptions' =
                [group_subscriptions EXCEPT ![c] =
                    [present |-> TRUE, time |-> time_entered[<<c, u>>], last_sent_date |-> 0]] ]_vars

\* C28: a chat gets at most one digest message on one calendar day: on the
\* day the bot was started, no chat has been sent a second message, whatever
\* the administrator did to the subscription on that day.
C28_OneDigestPerDay ==
    now \div 86400 = StartDay => \A c \in Chats : sent[c] <= 1

\* C29: a send that ends for a chat whose subscription was removed while it
\* was in flight leaves the subscriptions and their snapshot without that
\* chat, ends like any other send (the task is over and the message, if
\* delivered, is counted), and leaves the other tasks as they are.
C29_RemovedStaysRemoved ==
    [][ \A c \in Chats :
          ( /\ tasks[c].pc = "sending"
            /\ tasks'[c].pc = "idle"
            /\ ~group_subscriptions[c].present )
          => /\ ~group_subscriptions'[c].present
             /\ UNCHANGED <<group_subscriptions, group_settings_pkl>>
             /\ \A k \in TaskIds \ {c} : tasks'[k] = tasks[k] ]_vars

\* a send is about to hand its message over while the subscription of its
\* chat has been removed and the removal saved
C29_Witness ==
    \E c \in Chats :
        /\ tasks[c].pc = "sending"
        /\ ~group_subscriptions[c].present
        /\ ~group_settings_pkl[c].present
        /\ \A u \in Admins : conversations[<<c, u>>] = "end"
====
